---- MODULE Spec2Model ----
(***************************************************************************)
(* A model of the btnx-protocol publish/retrieve pipeline:                 *)
(*   - pkg/chunker: StreamChunkFile, ShardChunk, ReconstructChunk,         *)
(*     AssembleChunks, VerifyShard                                         *)
(*   - pkg/crypto:  GenerateKey, EncryptChunk, DecryptChunk                *)
(*   - pkg/manifest: New and the manifest queries                          *)
(*   - pkg/publisher: Upload                                               *)
(* Byte buffers are sequences over 0..255.  The Reed-Solomon codec is the  *)
(* 4+2 code over GF(2^8) that chunker.go obtains from reedsolomon.New.     *)
(***************************************************************************)
EXTENDS Integers, Sequences, FiniteSets, Bags, TLC

\* ------------------------------------------------------------------------
\* Program constants
\* ------------------------------------------------------------------------
DataShards == 4
ParityShards == 2
TotalShards == DataShards + ParityShards

\* ChunkSize is 1024 * 1024 in the source; the model scales it down.
ChunkSize == 2

\* capacity of the channel StreamChunkFile returns
StreamBuffer == 4

\* ------------------------------------------------------------------------
\* Bounds of the model
\* ------------------------------------------------------------------------
\* longest ciphertext buffer handed to ShardChunk in the erasure harness
MaxBufLen == 5
\* longest list of arbitrary (repeated, altered, unordered) shard records
\* handed to ReconstructChunk
MaxShardsIn == 4

\* byte values the harness draws buffer contents from
ByteVals == {0, 167}

Min(a, b) == IF a < b THEN a ELSE b
Max(a, b) == IF a < b THEN b ELSE a

\* all sequences over S of length lo..hi
SeqsOf(S, lo, hi) == UNION {[1..n -> S] : n \in lo..hi}

\* ------------------------------------------------------------------------
\* SHA-256 + hex encoding, as a collision-free digest of the bytes
\* ------------------------------------------------------------------------
Sha256Hex(data) == <<"sha256", data>>

\* Fault variant of VerifyShard: every shard is taken as genuine
VerifyShard_Skip(data, expectedHash) == TRUE

VerifyShard(data, expectedHash) == Sha256Hex(data) = expectedHash

VerifyChunk(data, expectedHash) == Sha256Hex(data) = expectedHash

\* ------------------------------------------------------------------------
\* GF(2^8) arithmetic of the Reed-Solomon codec (field polynomial 0x11D)
\* ------------------------------------------------------------------------
RECURSIVE BitXor(_, _)
BitXor(a, b) ==
  IF a = 0 THEN b
  ELSE IF b = 0 THEN a
  ELSE (((a % 2) + (b % 2)) % 2) + (2 * BitXor(a \div 2, b \div 2))

galAdd(a, b) == BitXor(a, b)

\* multiplication by the generator x (2)
galTimes2(a) == IF 2 * a < 256 THEN 2 * a ELSE BitXor(2 * a - 256, 29)

RECURSIVE galMulSlow(_, _)
\* shift-and-add product in the field
galMulSlow(a, b) ==
  IF b = 0 THEN 0
  ELSE galAdd(IF b % 2 = 1 THEN a ELSE 0, galMulSlow(galTimes2(a), b \div 2))

RECURSIVE galPow2(_)
\* 2^i in the field
galPow2(i) ==
  IF i = 0 THEN 1
  ELSE IF i % 2 = 1 THEN galTimes2(galPow2(i - 1))
  ELSE LET h == galPow2(i \div 2) IN galMulSlow(h, h)

\* expTable[i + 1] = 2^i for i in 0..254
expTable == [i \in 1..255 |-> galPow2(i - 1)]

\* logTable[a] = log_2 a for a in 1..255
logTable == [a \in 1..255 |-> CHOOSE i \in 0..254 : expTable[i + 1] = a]

galMultiply(a, b) ==
  IF a = 0 \/ b = 0 THEN 0 ELSE expTable[((logTable[a] + logTable[b]) % 255) + 1]

\* 1 / a, a # 0
galOneOver(a) == expTable[((255 - logTable[a]) % 255) + 1]

galExp(a, n) ==
  IF n = 0 THEN 1
  ELSE IF a = 0 THEN 0
  ELSE expTable[((logTable[a] * n) % 255) + 1]

\* ------------------------------------------------------------------------
\* Matrices over GF(2^8): m[r][c], rows and columns counted from 0
\* ------------------------------------------------------------------------
RECURSIVE galSum(_, _)
\* the sum of f[0] .. f[n-1]
galSum(f, n) == IF n = 0 THEN 0 ELSE galAdd(galSum(f, n - 1), f[n - 1])

matMultiply(A, B, R, K, C) ==
  [r \in 0..(R - 1) |-> [c \in 0..(C - 1) |->
      galSum([k \in 0..(K - 1) |-> galMultiply(A[r][k], B[k][c])], K)]]

vandermonde(R, C) == [r \in 0..(R - 1) |-> [c \in 0..(C - 1) |-> galExp(r, c)]]

identityMatrix(n) == [r \in 0..(n - 1) |-> [c \in 0..(n - 1) |-> IF r = c THEN 1 ELSE 0]]

\* m, n x n, with the identity to its right
augment(m, n) ==
  [r \in 0..(n - 1) |-> [c \in 0..(2 * n - 1) |->
      IF c < n THEN m[r][c] ELSE IF c - n = r THEN 1 ELSE 0]]

RECURSIVE gaussianElimination(_, _, _)
\* Gauss-Jordan elimination of the n x 2n matrix m from pivot r on;
\* ok is FALSE when a column has no pivot left (the matrix is singular)
gaussianElimination(m, n, r) ==
  IF r = n THEN [ok |-> TRUE, m |-> m]
  ELSE
    LET cands == {rb \in r..(n - 1) : m[rb][r] # 0} IN
    IF cands = {} THEN [ok |-> FALSE, m |-> m]
    ELSE
      LET p == CHOOSE rb \in cands : \A x \in cands : rb <= x
          sw == [m EXCEPT ![r] = m[p], ![p] = m[r]]
          sc == galOneOver(sw[r][r])
          rowr == [c \in 0..(2 * n - 1) |-> galMultiply(sc, sw[r][c])]
          el == [rr \in 0..(n - 1) |->
                   IF rr = r THEN rowr
                   ELSE [c \in 0..(2 * n - 1) |->
                           galAdd(sw[rr][c], galMultiply(sw[rr][r], rowr[c]))]]
      IN gaussianElimination(el, n, r + 1)

\* the inverse of the n x n matrix m; ok is FALSE when m is singular
matInvert(m, n) ==
  LET g == gaussianElimination(augment(m, n), n, 0) IN
  [ok |-> g.ok, m |-> [r \in 0..(n - 1) |-> [c \in 0..(n - 1) |-> g.m[r][c + n]]]]

\* the systematic encoding matrix: identity on top, two parity rows below
encodingMatrix ==
  LET vm == vandermonde(TotalShards, DataShards)
      top == [r \in 0..(DataShards - 1) |-> vm[r]]
  IN matMultiply(vm, matInvert(top, DataShards).m, TotalShards, DataShards, DataShards)

\* the parity rows apply to the data shards; the inverse of the rows of four
\* present shards recovers the data shards.  One inverse per choice of rows.
FourSubsets == {S \in SUBSET (0..(TotalShards - 1)) : Cardinality(S) = DataShards}

\* the elements of a set of numbers in increasing order, counted from 0
RECURSIVE sortedOf(_)
sortedOf(S) ==
  IF S = {} THEN <<>>
  ELSE LET mx == CHOOSE x \in S : \A y \in S : y <= x
       IN Append(sortedOf(S \ {mx}), mx)

decodeMatrix(S) ==
  LET idx == sortedOf(S)
      sub == [r \in 0..(DataShards - 1) |-> encodingMatrix[idx[r + 1]]]
  IN matInvert(sub, DataShards)

decodeTable == [S \in FourSubsets |-> decodeMatrix(S)]

\* ------------------------------------------------------------------------
\* The codec operations chunker.go calls: Split, Encode, Reconstruct,
\* Verify, Join.  A shard array is a function on 0..TotalShards-1; the
\* empty sequence is a missing shard.
\* ------------------------------------------------------------------------
Nil == "nil"

Zeros(n) == [i \in 1..n |-> 0]

\* row . shards at byte position j, over the data shards given by src
codeByte(row, src, j) ==
  galSum([k \in 0..(DataShards - 1) |-> galMultiply(row[k], src[k][j])], DataShards)

rsSplit(data) ==
  IF Len(data) = 0 THEN [err |-> "ErrShortData", shards |-> <<>>]
  ELSE
    LET perShard == (Len(data) + DataShards - 1) \div DataShards
        padded == data \o Zeros(TotalShards * perShard - Len(data))
    IN [err |-> Nil,
        shards |-> [i \in 0..(TotalShards - 1) |->
                      SubSeq(padded, i * perShard + 1, (i + 1) * perShard)]]

\* the length of the first shard that is present, 0 when none is
shardSize(shards) ==
  LET present == {i \in DOMAIN shards : Len(shards[i]) # 0} IN
  IF present = {} THEN 0
  ELSE Len(shards[CHOOSE i \in present : \A j \in present : i <= j])

checkShards(shards, nilok) ==
  LET size == shardSize(shards) IN
  IF size = 0 THEN "ErrShardNoData"
  ELSE IF \E i \in DOMAIN shards :
            Len(shards[i]) # size /\ (Len(shards[i]) # 0 \/ ~nilok)
       THEN "ErrShardSize"
  ELSE Nil

parityOf(shards, p) ==
  [j \in 1..Len(shards[0]) |-> codeByte(encodingMatrix[p], shards, j)]

rsEncode(shards) ==
  LET chk == checkShards(shards, FALSE) IN
  IF chk # Nil THEN [err |-> chk, shards |-> shards]
  ELSE [err |-> Nil,
        shards |-> [i \in 0..(TotalShards - 1) |->
                      IF i < DataShards THEN shards[i] ELSE parityOf(shards, i)]]

rsReconstruct(shards) ==
  LET chk == checkShards(shards, TRUE)
      present == {i \in DOMAIN shards : Len(shards[i]) # 0}
  IN
  IF chk # Nil THEN [err |-> chk, shards |-> shards]
  ELSE IF Cardinality(present) = TotalShards THEN [err |-> Nil, shards |-> shards]
  ELSE IF Cardinality(present) < DataShards THEN [err |-> "ErrTooFewShards", shards |-> shards]
  ELSE
    LET all == sortedOf(present)
        valid == {all[k] : k \in 1..DataShards}
        idx == sortedOf(valid)
        dec == decodeTable[valid]
        size == shardSize(shards)
        sub == [k \in 0..(DataShards - 1) |-> shards[idx[k + 1]]]
        data == [i \in 0..(DataShards - 1) |->
                   IF i \in present THEN shards[i]
                   ELSE [j \in 1..size |-> codeByte(dec.m[i], sub, j)]]
    IN IF ~dec.ok THEN [err |-> "errSingular", shards |-> shards]
       ELSE [err |-> Nil,
             shards |-> [i \in 0..(TotalShards - 1) |->
                           IF i < DataShards THEN data[i]
                           ELSE IF i \in present THEN shards[i]
                           ELSE parityOf(data, i)]]

rsVerify(shards) ==
  LET chk == checkShards(shards, FALSE) IN
  IF chk # Nil THEN [err |-> chk, ok |-> FALSE]
  ELSE [err |-> Nil,
        ok |-> \A p \in DataShards..(TotalShards - 1) : shards[p] = parityOf(shards, p)]

RECURSIVE concatShards(_, _)
\* shards[0] \o ... \o shards[n-1]
concatShards(shards, n) ==
  IF n = 0 THEN <<>> ELSE concatShards(shards, n - 1) \o shards[n - 1]

\* Fault variant of rsJoin: the zero padding is not stripped
rsJoin_Padded(shards, outSize) ==
  LET joined == concatShards(shards, DataShards) IN
  IF Len(joined) < outSize THEN [err |-> "ErrShortData", data |-> <<>>]
  ELSE [err |-> Nil, data |-> joined]

rsJoin(shards, outSize) ==
  LET joined == concatShards(shards, DataShards) IN
  IF \E i \in 0..(DataShards - 1) :
        Len(shards[i]) = 0 /\ Len(concatShards(shards, i)) < outSize
    THEN [err |-> "ErrReconstructRequired", data |-> <<>>]
  ELSE IF Len(joined) < outSize THEN [err |-> "ErrShortData", data |-> <<>>]
  ELSE [err |-> Nil, data |-> SubSeq(joined, 1, outSize)]

\* ------------------------------------------------------------------------
\* chunker.go: Chunk, Shard, ShardChunk, ReconstructChunk
\* ------------------------------------------------------------------------
Chunk(index, data) ==
  [Index |-> index, Data |-> data, Hash |-> Sha256Hex(data), Size |-> Len(data)]

Shard(chunkIndex, shardIndex, data) ==
  [ChunkIndex |-> chunkIndex, ShardIndex |-> shardIndex, Data |-> data,
   Hash |-> Sha256Hex(data), Size |-> Len(data)]

\* Fault variant of ShardChunk: the size of the data is not compared with
\* the chunk record
ShardChunk_NoSizeCheck(chunk, encryptedData) ==
  LET sp == rsSplit(encryptedData) IN
  IF sp.err # Nil THEN [err |-> "failed to split data", shards |-> <<>>]
  ELSE
    LET en == rsEncode(sp.shards) IN
    IF en.err # Nil THEN [err |-> "failed to encode shards", shards |-> <<>>]
    ELSE [err |-> Nil,
          shards |-> [i \in 1..TotalShards |->
                        Shard(chunk.Index, i - 1, en.shards[i - 1])]]

\* Fault variant of ShardChunk: the shards are numbered from 1
ShardChunk_IndexFromOne(chunk, encryptedData) ==
  IF Len(encryptedData) # chunk.Size
    THEN [err |-> "data size mismatch", shards |-> <<>>]
  ELSE
    LET sp == rsSplit(encryptedData) IN
    IF sp.err # Nil THEN [err |-> "failed to split data", shards |-> <<>>]
    ELSE
      LET en == rsEncode(sp.shards) IN
      IF en.err # Nil THEN [err |-> "failed to encode shards", shards |-> <<>>]
      ELSE [err |-> Nil,
            shards |-> [i \in 1..TotalShards |->
                          Shard(chunk.Index, i, en.shards[i - 1])]]

\* the shard list is a sequence, position i + 1 holding shard i
ShardChunk(chunk, encryptedData) ==
  IF Len(encryptedData) # chunk.Size
    THEN [err |-> "data size mismatch", shards |-> <<>>]
  ELSE
    LET sp == rsSplit(encryptedData) IN
    IF sp.err # Nil THEN [err |-> "failed to split data", shards |-> <<>>]
    ELSE
      LET en == rsEncode(sp.shards) IN
      IF en.err # Nil THEN [err |-> "failed to encode shards", shards |-> <<>>]
      ELSE [err |-> Nil,
            shards |-> [i \in 1..TotalShards |->
                          Shard(chunk.Index, i - 1, en.shards[i - 1])]]

\* Fault variant of firstBadShard: the chunk index of a record is not
\* compared, only its hash is verified
firstBadShard_HashOnly(shards) ==
  LET bad == {i \in 1..Len(shards) : ~VerifyShard(shards[i].Data, shards[i].Hash)}
  IN IF bad = {} THEN 0 ELSE CHOOSE i \in bad : \A j \in bad : i <= j

\* Fault variant of firstBadShard: every chunk index is compared before any
\* hash is verified
firstBadShard_ChunksFirst(shards) ==
  LET mixed == {i \in 1..Len(shards) : shards[i].ChunkIndex # shards[1].ChunkIndex}
      forged == {i \in 1..Len(shards) : ~VerifyShard(shards[i].Data, shards[i].Hash)}
  IN IF mixed # {} THEN CHOOSE i \in mixed : \A j \in mixed : i <= j
     ELSE IF forged # {} THEN CHOOSE i \in forged : \A j \in forged : i <= j
     ELSE 0

\* the first position of shards whose record fails a check of the first loop,
\* 0 when none does
firstBadShard(shards) ==
  LET bad == {i \in 1..Len(shards) :
                shards[i].ChunkIndex # shards[1].ChunkIndex
                \/ ~VerifyShard(shards[i].Data, shards[i].Hash)}
  IN IF bad = {} THEN 0 ELSE CHOOSE i \in bad : \A j \in bad : i <= j

\* the first position of shards the fill loop rejects, 0 when none
firstBadIndex(shards) ==
  LET bad == {i \in 1..Len(shards) :
                shards[i].ShardIndex < 0 \/ shards[i].ShardIndex >= TotalShards
                \/ \E j \in 1..(i - 1) : shards[j].ShardIndex = shards[i].ShardIndex}
  IN IF bad = {} THEN 0 ELSE CHOOSE i \in bad : \A j \in bad : i <= j

\* Fault variant of ReconstructChunk: the size is tested before the number
\* of shard records
ReconstructChunk_SizeFirst(shards, dataSize) ==
  IF dataSize <= 0 THEN [err |-> "invalid data size", data |-> <<>>]
  ELSE IF Len(shards) < DataShards THEN [err |-> "need at least 4 shards", data |-> <<>>]
  ELSE
    LET fb == firstBadShard(shards) IN
    IF fb # 0 THEN
      IF shards[fb].ChunkIndex # shards[1].ChunkIndex
        THEN [err |-> "shards belong to different chunks", data |-> <<>>]
        ELSE [err |-> "shard failed hash verification", data |-> <<>>]
    ELSE
      LET fi == firstBadIndex(shards) IN
      IF fi # 0 THEN
        IF shards[fi].ShardIndex < 0 \/ shards[fi].ShardIndex >= TotalShards
          THEN [err |-> "invalid shard index", data |-> <<>>]
          ELSE [err |-> "duplicate shard index", data |-> <<>>]
      ELSE
        LET shardData == [i \in 0..(TotalShards - 1) |->
                            IF \E k \in 1..Len(shards) : shards[k].ShardIndex = i
                              THEN shards[CHOOSE k \in 1..Len(shards) :
                                             shards[k].ShardIndex = i].Data
                              ELSE <<>>]
            rec == rsReconstruct(shardData)
        IN
        IF rec.err # Nil THEN [err |-> "failed to reconstruct", data |-> <<>>]
        ELSE
          LET ver == rsVerify(rec.shards) IN
          IF ver.err # Nil THEN [err |-> "verification failed", data |-> <<>>]
          ELSE IF ~ver.ok
            THEN [err |-> "reconstructed data failed verification", data |-> <<>>]
          ELSE
            LET jn == rsJoin(rec.shards, dataSize) IN
            IF jn.err # Nil THEN [err |-> "failed to join shards", data |-> <<>>]
            ELSE [err |-> Nil, data |-> jn.data]

\* ReconstructChunk(shards, dataSize)
ReconstructChunk(shards, dataSize) ==
  IF Len(shards) < DataShards THEN [err |-> "need at least 4 shards", data |-> <<>>]
  ELSE IF dataSize <= 0 THEN [err |-> "invalid data size", data |-> <<>>]
  ELSE
    LET fb == firstBadShard(shards) IN
    IF fb # 0 THEN
      IF shards[fb].ChunkIndex # shards[1].ChunkIndex
        THEN [err |-> "shards belong to different chunks", data |-> <<>>]
        ELSE [err |-> "shard failed hash verification", data |-> <<>>]
    ELSE
      LET fi == firstBadIndex(shards) IN
      IF fi # 0 THEN
        IF shards[fi].ShardIndex < 0 \/ shards[fi].ShardIndex >= TotalShards
          THEN [err |-> "invalid shard index", data |-> <<>>]
          ELSE [err |-> "duplicate shard index", data |-> <<>>]
      ELSE
        LET shardData == [i \in 0..(TotalShards - 1) |->
                            IF \E k \in 1..Len(shards) : shards[k].ShardIndex = i
                              THEN shards[CHOOSE k \in 1..Len(shards) :
                                             shards[k].ShardIndex = i].Data
                              ELSE <<>>]
            rec == rsReconstruct(shardData)
        IN
        IF rec.err # Nil THEN [err |-> "failed to reconstruct", data |-> <<>>]
        ELSE
          LET ver == rsVerify(rec.shards) IN
          IF ver.err # Nil THEN [err |-> "verification failed", data |-> <<>>]
          ELSE IF ~ver.ok
            THEN [err |-> "reconstructed data failed verification", data |-> <<>>]
          ELSE
            LET jn == rsJoin(rec.shards, dataSize) IN
            IF jn.err # Nil THEN [err |-> "failed to join shards", data |-> <<>>]
            ELSE [err |-> Nil, data |-> jn.data]

\* ========================================================================
\* Erasure coding: ShardChunk and ReconstructChunk applied to drawn inputs
\* ========================================================================
VARIABLES
  e_buf,     \* the ciphertext buffer handed to ShardChunk
  e_chunk,   \* the chunk record handed to ShardChunk
  e_shards,  \* what ShardChunk returned
  e_in,      \* the shard records handed to ReconstructChunk, in order
  e_kinds,   \* for each record of e_in, how the caller obtained it
  e_size,    \* the dataSize handed to ReconstructChunk
  e_out      \* what ReconstructChunk returned

evars == <<e_buf, e_chunk, e_shards, e_in, e_kinds, e_size, e_out>>

NotRun == "not run"

Buffers == SeqsOf(ByteVals, 1, MaxBufLen)

\* the buffers whose shards are also supplied repeated, altered and unordered
AdvBuffers ==
  {b \in Buffers : Len(b) \in {1, MaxBufLen} /\ \A i \in 1..Len(b) : b[i] # 0}

\* index of the chunk being sharded in the harness
HarnessChunkIndex == 3

EInit ==
  /\ e_buf \in Buffers
  /\ \E sz \in {Len(e_buf), Len(e_buf) + 1} :
       e_chunk = [Chunk(HarnessChunkIndex, e_buf) EXCEPT !.Size = sz]
  /\ e_shards = [err |-> NotRun, shards |-> <<>>]
  /\ e_in = <<>>
  /\ e_kinds = <<>>
  /\ e_size = 0
  /\ e_out = [err |-> NotRun, data |-> <<>>]

EIdle ==
  /\ e_buf = <<>>
  /\ e_chunk = Chunk(0, <<>>)
  /\ e_shards = [err |-> NotRun, shards |-> <<>>]
  /\ e_in = <<>>
  /\ e_kinds = <<>>
  /\ e_size = 0
  /\ e_out = [err |-> NotRun, data |-> <<>>]

\* one bit of the first byte flipped; the declared hash is left as it was
FlipBit(data) == [data EXCEPT ![1] = BitXor(data[1], 1)]

CanSupply ==
  /\ e_shards.err = Nil
  /\ e_out.err = NotRun

Supply(rec, kind) ==
  /\ e_in' = Append(e_in, rec)
  /\ e_kinds' = Append(e_kinds, kind)
  /\ UNCHANGED <<e_buf, e_chunk, e_shards, e_size, e_out>>

\* shards are supplied in any order and repeatedly for the buffers of
\* AdvBuffers, and in increasing index order, each once, for the others
MaySupplyHonest(i) ==
  \/ e_buf \in AdvBuffers /\ Len(e_in) < MaxShardsIn
  \/ /\ \A k \in 1..Len(e_in) : e_kinds[k] = "honest" /\ e_in[k].ShardIndex < i
     /\ \A j, k \in 1..Len(e_in) : j < k => e_in[j].ShardIndex < e_in[k].ShardIndex

MaySupplyAltered == e_buf \in AdvBuffers /\ Len(e_in) < MaxShardsIn

EShardChunk ==
  /\ e_shards.err = NotRun
  /\ e_shards' = ShardChunk(e_chunk, e_buf)
  /\ UNCHANGED <<e_buf, e_chunk, e_in, e_kinds, e_size, e_out>>

\* a shard exactly as ShardChunk returned it
ESupplyHonest ==
  /\ CanSupply
  /\ \E i \in 0..(TotalShards - 1) :
       /\ MaySupplyHonest(i)
       /\ Supply(e_shards.shards[i + 1], "honest")

\* a shard whose data changed after its hash was computed
ESupplyTampered ==
  /\ CanSupply /\ MaySupplyAltered
  /\ \E i \in {0, 4} :
       LET s == e_shards.shards[i + 1] IN
       Supply([s EXCEPT !.Data = FlipBit(s.Data)], "tampered")

\* a shard of another chunk (the next index) holding the same bytes
ESupplyForeign ==
  /\ CanSupply /\ MaySupplyAltered
  /\ \E i \in {1, 5} :
       LET other == ShardChunk([e_chunk EXCEPT !.Index = e_chunk.Index + 1], e_buf) IN
       Supply(other.shards[i + 1], "foreign")

\* a shard whose index lies outside 0..TotalShards-1
ESupplyBadIndex ==
  /\ CanSupply /\ MaySupplyAltered
  /\ \E x \in {-1, TotalShards} :
       Supply([e_shards.shards[3] EXCEPT !.ShardIndex = x], "badindex")

EReconstructChunk ==
  /\ e_shards.err = Nil
  /\ e_out.err = NotRun
  /\ \E sz \in {-1, 0, Len(e_buf)} :
       /\ e_size' = sz
       /\ e_out' = ReconstructChunk(e_in, sz)
  /\ UNCHANGED <<e_buf, e_chunk, e_shards, e_in, e_kinds>>

\* ========================================================================
\* Chunking and assembly: StreamChunkFile's producer goroutine, the consumer
\* that collects its results, and AssembleChunks fed from a stream
\* ========================================================================
\* longest source file
MaxFileLen == 5
\* most chunks delivered to one AssembleChunks call
MaxDeliver == 4

\* byte values of source files
FileBytes == {0, 1}

Files == SeqsOf(FileBytes, 0, MaxFileLen)

VARIABLES
  s_file,     \* the bytes of the source file
  s_pc,       \* where the producer goroutine stands
  s_off,      \* the file offset of the next read
  s_index,    \* index of the next chunk
  s_pend,     \* the result the producer is about to send
  s_chan,     \* the results buffered in the channel
  s_recv,     \* the results the consumer has received, in order
  s_done,     \* the consumer saw the channel closed and drained
  s_ioErr     \* opening or reading the source failed

svars == <<s_file, s_pc, s_off, s_index, s_pend, s_chan, s_recv, s_done, s_ioErr>>

VARIABLES
  a_pc,        \* where AssembleChunks stands: "idle", "loop", "returned"
  a_total,     \* its totalChunks argument
  a_file,      \* the bytes of the output file
  a_written,   \* the byte offsets some WriteAt has written
  a_received,  \* received, the presence flags by index
  a_unique,    \* uniqueCount
  a_err,       \* the error AssembleChunks returned
  a_closed,    \* the chunk stream was closed by its sender
  a_deliv,     \* the indices delivered so far
  a_ndeliv,    \* how many chunks were delivered so far
  a_crafted,   \* a delivered chunk was not one StreamChunkFile produced
  a_inOrder,   \* the deliveries so far came in increasing index order
  a_ioFail     \* creating or writing the output file failed

avars == <<a_pc, a_total, a_file, a_written, a_received, a_unique, a_err,
           a_closed, a_deliv, a_ndeliv, a_crafted, a_inOrder, a_ioFail>>

\* the zero value of Chunk, carried by an error result
ZeroChunk == [Index |-> 0, Data |-> <<>>, Hash |-> "", Size |-> 0]

ChunkResult(chunk, err) == [Chunk |-> chunk, Err |-> err]

\* Fault variant of ReadFull: the end of the source is reported as a short
\* read instead of EOF
ReadFull_ShortAtEOF(file, off) ==
  LET rest == Len(file) - off
      n == Min(ChunkSize, rest)
  IN [n |-> n,
      data |-> SubSeq(file, off + 1, off + n),
      err |-> IF n = ChunkSize THEN Nil ELSE "ErrUnexpectedEOF"]

\* io.ReadFull(file, buffer) at offset off with a buffer of ChunkSize
\* bytes, when the source itself reports no error
ReadFull(file, off) ==
  LET rest == Len(file) - off
      n == Min(ChunkSize, rest)
  IN [n |-> n,
      data |-> SubSeq(file, off + 1, off + n),
      err |-> IF n = ChunkSize THEN Nil
              ELSE IF n = 0 THEN "EOF" ELSE "ErrUnexpectedEOF"]

SInit ==
  /\ s_file \in Files
  /\ s_pc = "open"
  /\ s_off = 0
  /\ s_index = 0
  /\ s_pend = ChunkResult(ZeroChunk, Nil)
  /\ s_chan = <<>>
  /\ s_recv = <<>>
  /\ s_done = FALSE
  /\ s_ioErr = FALSE

AInit ==
  /\ a_pc = "idle"
  /\ a_total = 0
  /\ a_file = <<>>
  /\ a_written = {}
  /\ a_received = <<>>
  /\ a_unique = 0
  /\ a_err = NotRun
  /\ a_closed = FALSE
  /\ a_deliv = {}
  /\ a_ndeliv = 0
  /\ a_crafted = FALSE
  /\ a_inOrder = TRUE
  /\ a_ioFail = FALSE

SIdle ==
  /\ s_file = <<>>
  /\ s_pc = "open"
  /\ s_off = 0
  /\ s_index = 0
  /\ s_pend = ChunkResult(ZeroChunk, Nil)
  /\ s_chan = <<>>
  /\ s_recv = <<>>
  /\ s_done = FALSE
  /\ s_ioErr = FALSE

\* longest source file that is streamed without being assembled
MaxLongLen == 12

\* sources long enough for the producer to fill the channel, all of whose
\* chunks differ
LongFiles ==
  {[i \in 1..n |-> (seed + i) % 256] : n \in 0..MaxLongLen, seed \in {0, 250}}

SInitLong ==
  /\ s_file \in LongFiles
  /\ s_pc = "open"
  /\ s_off = 0
  /\ s_index = 0
  /\ s_pend = ChunkResult(ZeroChunk, Nil)
  /\ s_chan = <<>>
  /\ s_recv = <<>>
  /\ s_done = FALSE
  /\ s_ioErr = FALSE

\* os.Open succeeds
SOpen ==
  /\ s_pc = "open"
  /\ s_pc' = "read"
  /\ UNCHANGED <<s_file, s_off, s_index, s_pend, s_chan, s_recv, s_done, s_ioErr>>

\* os.Open fails: the error result is the only thing to send
SOpenFails ==
  /\ s_pc = "open"
  /\ s_pc' = "senderr"
  /\ s_pend' = ChunkResult(ZeroChunk, "failed to open file")
  /\ s_ioErr' = TRUE
  /\ UNCHANGED <<s_file, s_off, s_index, s_chan, s_recv, s_done>>

\* one pass of the read loop up to the send: ReadFull, the EOF tests, the
\* copy out of the reused buffer, the hash and the chunk record
SRead ==
  /\ s_pc = "read"
  /\ LET r == ReadFull(s_file, s_off) IN
       IF r.err = "EOF"
         THEN \* break; the deferred close runs
              /\ s_pc' = "closed"
              /\ UNCHANGED <<s_off, s_pend>>
         ELSE /\ s_pc' = "send"
              /\ s_off' = s_off + r.n
              /\ s_pend' = ChunkResult(Chunk(s_index, r.data), Nil)
  /\ UNCHANGED <<s_file, s_index, s_chan, s_recv, s_done, s_ioErr>>

\* the source reports an error other than end of file
SReadFails ==
  /\ s_pc = "read"
  /\ s_pc' = "senderr"
  /\ s_pend' = ChunkResult(ZeroChunk, "failed to read chunk")
  /\ s_ioErr' = TRUE
  /\ UNCHANGED <<s_file, s_off, s_index, s_chan, s_recv, s_done>>

\* Fault variant of SSend: the channel takes a result whatever it holds
SSend_Unbounded ==
  /\ s_pc = "send"
  /\ s_chan' = Append(s_chan, s_pend)
  /\ s_index' = s_index + 1
  /\ s_pc' = IF s_pend.Chunk.Size < ChunkSize THEN "closed" ELSE "read"
  /\ UNCHANGED <<s_file, s_off, s_pend, s_recv, s_done, s_ioErr>>

\* out <- ChunkResult{...}; index++; break after a short chunk
SSend ==
  /\ s_pc = "send"
  /\ Len(s_chan) < StreamBuffer
  /\ s_chan' = Append(s_chan, s_pend)
  /\ s_index' = s_index + 1
  /\ s_pc' = IF s_pend.Chunk.Size < ChunkSize THEN "closed" ELSE "read"
  /\ UNCHANGED <<s_file, s_off, s_pend, s_recv, s_done, s_ioErr>>

\* Fault variant of SSendErr: the return after the error result is missing
\* and the loop reads on
SSendErr_NoReturn ==
  /\ s_pc = "senderr"
  /\ Len(s_chan) < StreamBuffer
  /\ s_chan' = Append(s_chan, s_pend)
  /\ s_pc' = "read"
  /\ UNCHANGED <<s_file, s_off, s_index, s_pend, s_recv, s_done, s_ioErr>>

\* out <- ChunkResult{Err: ...}; return; the deferred close runs
SSendErr ==
  /\ s_pc = "senderr"
  /\ Len(s_chan) < StreamBuffer
  /\ s_chan' = Append(s_chan, s_pend)
  /\ s_pc' = "closed"
  /\ UNCHANGED <<s_file, s_off, s_index, s_pend, s_recv, s_done, s_ioErr>>

\* the consumer receives the oldest buffered result
SRecv ==
  /\ s_chan # <<>>
  /\ s_recv' = Append(s_recv, Head(s_chan))
  /\ s_chan' = Tail(s_chan)
  /\ UNCHANGED <<s_file, s_pc, s_off, s_index, s_pend, s_done, s_ioErr>>

\* the consumer's range loop ends: the channel is closed and empty
SRecvClosed ==
  /\ s_pc = "closed"
  /\ s_chan = <<>>
  /\ ~s_done
  /\ s_done' = TRUE
  /\ UNCHANGED <<s_file, s_pc, s_off, s_index, s_pend, s_chan, s_recv, s_ioErr>>

\* the chunks the consumer collected
Collected == SelectSeq(s_recv, LAMBDA r : r.Err = Nil)

\* ------------------------------------------------------------------------
\* AssembleChunks
\* ------------------------------------------------------------------------
\* output.WriteAt(data, off): bytes between the old end and off read as 0
WriteAt(file, data, off) ==
  IF Len(data) = 0 THEN file
  ELSE [i \in 1..Max(Len(file), off + Len(data)) |->
          IF i > off /\ i <= off + Len(data) THEN data[i - off]
          ELSE IF i <= Len(file) THEN file[i]
          ELSE 0]

\* Fault variant of AssembleStep: a chunk whose index is out of range is
\* skipped like a duplicate
AssembleStep_SkipsOutOfBounds(st, total, chunk, wrote) ==
  IF chunk.Index < 0 \/ chunk.Index >= total THEN st
  ELSE IF st.received[chunk.Index + 1] THEN st
  ELSE
    LET offset == chunk.Index * ChunkSize IN
    IF wrote >= 0
      THEN [st EXCEPT
              !.file = WriteAt(st.file, SubSeq(chunk.Data, 1, wrote), offset),
              !.written = st.written \cup (offset..(offset + wrote - 1)),
              !.err = "failed to write chunk"]
      ELSE [st EXCEPT
              !.file = WriteAt(st.file, chunk.Data, offset),
              !.written = st.written \cup (offset..(offset + Len(chunk.Data) - 1)),
              !.received = [st.received EXCEPT ![chunk.Index + 1] = TRUE],
              !.unique = st.unique + 1]

\* Fault variant of AssembleStep: a chunk is written whether or not its
\* index was received before
AssembleStep_LastWins(st, total, chunk, wrote) ==
  IF chunk.Index < 0 \/ chunk.Index >= total
    THEN [st EXCEPT !.err = "chunk index out of bounds"]
  ELSE
    LET offset == chunk.Index * ChunkSize IN
    IF wrote >= 0
      THEN [st EXCEPT
              !.file = WriteAt(st.file, SubSeq(chunk.Data, 1, wrote), offset),
              !.written = st.written \cup (offset..(offset + wrote - 1)),
              !.err = "failed to write chunk"]
      ELSE [st EXCEPT
              !.file = WriteAt(st.file, chunk.Data, offset),
              !.written = st.written \cup (offset..(offset + Len(chunk.Data) - 1)),
              !.received = [st.received EXCEPT ![chunk.Index + 1] = TRUE],
              !.unique = st.unique + 1]

\* Fault variant of AssembleStep: chunks are laid out in arrival order
AssembleStep_ArrivalOrder(st, total, chunk, wrote) ==
  IF chunk.Index < 0 \/ chunk.Index >= total
    THEN [st EXCEPT !.err = "chunk index out of bounds"]
  ELSE IF st.received[chunk.Index + 1] THEN st
  ELSE
    LET offset == st.unique * ChunkSize IN
    IF wrote >= 0
      THEN [st EXCEPT
              !.file = WriteAt(st.file, SubSeq(chunk.Data, 1, wrote), offset),
              !.written = st.written \cup (offset..(offset + wrote - 1)),
              !.err = "failed to write chunk"]
      ELSE [st EXCEPT
              !.file = WriteAt(st.file, chunk.Data, offset),
              !.written = st.written \cup (offset..(offset + Len(chunk.Data) - 1)),
              !.received = [st.received EXCEPT ![chunk.Index + 1] = TRUE],
              !.unique = st.unique + 1]

\* one pass of the loop body for chunk on the state st =
\* [file, written, received, unique]; err is Nil when the loop goes on.
\* wrote is how many bytes WriteAt wrote before failing, or -1 when it
\* does not fail.
AssembleStep(st, total, chunk, wrote) ==
  IF chunk.Index < 0 \/ chunk.Index >= total
    THEN [st EXCEPT !.err = "chunk index out of bounds"]
  ELSE IF st.received[chunk.Index + 1] THEN st
  ELSE
    LET offset == chunk.Index * ChunkSize IN
    IF wrote >= 0
      THEN [st EXCEPT
              !.file = WriteAt(st.file, SubSeq(chunk.Data, 1, wrote), offset),
              !.written = st.written \cup (offset..(offset + wrote - 1)),
              !.err = "failed to write chunk"]
      ELSE [st EXCEPT
              !.file = WriteAt(st.file, chunk.Data, offset),
              !.written = st.written \cup (offset..(offset + Len(chunk.Data) - 1)),
              !.received = [st.received EXCEPT ![chunk.Index + 1] = TRUE],
              !.unique = st.unique + 1]

\* Fault variant of AssembleFinish: the completeness check is left out
AssembleFinish_NoCheck(unique, total) == Nil

\* the check after the stream ended
AssembleFinish(unique, total) ==
  IF unique # total THEN "incomplete file" ELSE Nil

\* chunks a sender may hold besides those StreamChunkFile produced
CraftedChunks ==
  {Chunk(-1, <<9>>), Chunk(0, <<9>>), Chunk(0, [i \in 1..(ChunkSize + 1) |-> 9])}

ProducedChunks == {Collected[k].Chunk : k \in 1..Len(Collected)}

\* AssembleChunks is called; os.Create truncates the output file
ACreate ==
  /\ s_done /\ a_pc = "idle"
  /\ \E total \in 0..(Len(Collected) + 1) :
       /\ a_total' = total
       /\ a_received' = [i \in 1..total |-> FALSE]
  /\ a_pc' = "loop"
  /\ UNCHANGED <<a_file, a_written, a_unique, a_err, a_closed, a_deliv,
                 a_ndeliv, a_crafted, a_inOrder, a_ioFail>>

ACreateFails ==
  /\ s_done /\ a_pc = "idle"
  /\ \E total \in 0..(Len(Collected) + 1) : a_total' = total
  /\ a_pc' = "returned"
  /\ a_err' = "failed to create output file"
  /\ a_ioFail' = TRUE
  /\ UNCHANGED <<a_file, a_written, a_received, a_unique, a_closed, a_deliv,
                 a_ndeliv, a_crafted, a_inOrder>>

ADeliverStep(chunk, wrote) ==
  LET st == AssembleStep([file |-> a_file, written |-> a_written,
                          received |-> a_received, unique |-> a_unique,
                          err |-> Nil], a_total, chunk, wrote)
  IN /\ a_file' = st.file
     /\ a_written' = st.written
     /\ a_received' = st.received
     /\ a_unique' = st.unique
     /\ IF st.err = Nil
          THEN UNCHANGED <<a_pc, a_err>>
          ELSE a_pc' = "returned" /\ a_err' = st.err
     /\ a_deliv' = a_deliv \cup {chunk.Index}
     /\ a_ndeliv' = a_ndeliv + 1
     /\ a_crafted' = (a_crafted \/ chunk \notin ProducedChunks)
     /\ a_inOrder' = (a_inOrder /\ \A i \in a_deliv : i < chunk.Index)
     /\ UNCHANGED <<a_total, a_closed>>

\* the sender sends a chunk and the loop body handles it; the write succeeds
ADeliver ==
  /\ a_pc = "loop" /\ ~a_closed /\ a_ndeliv < MaxDeliver
  /\ \E chunk \in ProducedChunks \cup CraftedChunks :
       /\ ADeliverStep(chunk, -1)
       /\ a_ioFail' = a_ioFail

\* the same with WriteAt failing after some of the chunk's bytes
ADeliverWriteFails ==
  /\ a_pc = "loop" /\ ~a_closed /\ a_ndeliv < MaxDeliver
  /\ \E chunk \in ProducedChunks \cup CraftedChunks :
       /\ chunk.Index >= 0 /\ chunk.Index < a_total
       /\ ~a_received[chunk.Index + 1]
       /\ \E wrote \in 0..(Len(chunk.Data) - 1) : ADeliverStep(chunk, wrote)
       /\ a_ioFail' = TRUE

\* the sender closes the stream
AClose ==
  /\ a_pc = "loop" /\ ~a_closed
  /\ a_closed' = TRUE
  /\ UNCHANGED <<a_pc, a_total, a_file, a_written, a_received, a_unique, a_err,
                 a_deliv, a_ndeliv, a_crafted, a_inOrder, a_ioFail>>

\* the range loop ends on the closed stream; the completeness check
AFinish ==
  /\ a_pc = "loop" /\ a_closed
  /\ a_pc' = "returned"
  /\ a_err' = AssembleFinish(a_unique, a_total)
  /\ UNCHANGED <<a_total, a_file, a_written, a_received, a_unique, a_closed,
                 a_deliv, a_ndeliv, a_crafted, a_inOrder, a_ioFail>>

\* ------------------------------------------------------------------------
\* AssembleChunks as a function of what its stream delivers: a sequence
\* of chunks is delivered and the stream closed, no write failing
\* ------------------------------------------------------------------------
RECURSIVE AssembleLoop(_, _, _)
\* the range loop over the chunks of seq, left at the first error
AssembleLoop(st, total, seq) ==
  IF seq = <<>> \/ st.err # Nil THEN st
  ELSE AssembleLoop(AssembleStep(st, total, Head(seq), -1), total, Tail(seq))

\* AssembleChunks(chunkStream, outputPath, totalChunks): the output file,
\* the offsets written, the tracking at the return and the error returned
AssembleChunks(seq, total) ==
  LET st == AssembleLoop([file |-> <<>>, written |-> {},
                          received |-> [i \in 1..total |-> FALSE],
                          unique |-> 0, err |-> Nil], total, seq)
  IN [file |-> st.file, written |-> st.written,
      received |-> st.received, unique |-> st.unique,
      err |-> IF st.err # Nil THEN st.err ELSE AssembleFinish(st.unique, total)]

\* chunks a retrying sender delivers: two different chunks for index 0 and
\* for index 1, one of them longer than ChunkSize, and short last chunks
RetryChunks ==
  {Chunk(0, [i \in 1..ChunkSize |-> 1]), Chunk(0, <<9>>),
   Chunk(1, [i \in 1..ChunkSize |-> 2]), Chunk(1, [i \in 1..(ChunkSize + 1) |-> 8]),
   Chunk(2, <<3>>), Chunk(3, <<4>>)}

VARIABLES
  d_seq,      \* the chunks delivered, in order
  d_total,    \* totalChunks
  d_out,      \* what AssembleChunks made of d_seq
  d_ref       \* what AssembleChunks made of d_seq without its re-deliveries

dvars == <<d_seq, d_total, d_out, d_ref>>

NoAssembly ==
  [file |-> <<>>, written |-> {}, received |-> <<>>, unique |-> 0, err |-> NotRun]

RECURSIVE FirstDeliveries(_, _)
\* seq without the chunks whose index is in seen or came earlier in seq
FirstDeliveries(seq, seen) ==
  IF seq = <<>> THEN <<>>
  ELSE IF Head(seq).Index \in seen THEN FirstDeliveries(Tail(seq), seen)
  ELSE <<Head(seq)>> \o FirstDeliveries(Tail(seq), seen \cup {Head(seq).Index})

DInit ==
  /\ d_seq \in SeqsOf(RetryChunks, 0, MaxDeliver)
  /\ d_total \in 0..3
  /\ d_out = NoAssembly
  /\ d_ref = NoAssembly

DIdle ==
  /\ d_seq = <<>>
  /\ d_total = 0
  /\ d_out = NoAssembly
  /\ d_ref = NoAssembly

\* AssembleChunks is run on the deliveries
DAssemble ==
  /\ d_out.err = NotRun
  /\ d_out' = AssembleChunks(d_seq, d_total)
  /\ UNCHANGED <<d_seq, d_total, d_ref>>

\* AssembleChunks is run on the deliveries without the re-deliveries
DAssembleFirst ==
  /\ d_ref.err = NotRun
  /\ d_ref' = AssembleChunks(FirstDeliveries(d_seq, {}), d_total)
  /\ UNCHANGED <<d_seq, d_total, d_out>>

\* ========================================================================
\* Confidentiality layer (pkg/crypto) and the encrypt-then-shard step
\* ========================================================================
KeySize == 32
\* aead.NonceSize() of XChaCha20-Poly1305
NonceSize == 24
\* the length of the Poly1305 tag that Seal appends
TagSize == 16

\* a byte sequence of n bytes drawn from one seed byte
Fill(n, seed) == [i \in 1..n |-> seed]

\* keys rand.Read can produce for GenerateKey, and one of a wrong length
GoodKeys == {Fill(KeySize, 1), Fill(KeySize, 2)}
Keys == GoodKeys \cup {Fill(KeySize \div 2, 1)}

\* nonces rand.Read can produce for EncryptChunk
Nonces == {Fill(NonceSize, 3), Fill(NonceSize, 4)}

\* the i-th byte of the cipher's key stream under key and nonce
keyStream(key, nonce, i) == (key[1] + 3 * nonce[1] + 5 * i) % 256

\* XOR with the key stream, byte by byte
streamXor(key, nonce, data) ==
  [i \in 1..Len(data) |-> BitXor(data[i], keyStream(key, nonce, i))]

RECURSIVE weightedSum(_, _)
\* the sum of (2i + 1) * seq[i] over the first n bytes: changing one byte
\* changes the sum modulo 256
weightedSum(seq, n) ==
  IF n = 0 THEN 0 ELSE weightedSum(seq, n - 1) + (2 * n + 1) * seq[n]

\* the authentication tag over the nonce and the encrypted bytes under key
authTag(key, nonce, body) ==
  LET mac == (weightedSum(key, Len(key)) + 7 * weightedSum(nonce, Len(nonce))
              + 11 * weightedSum(body, Len(body)) + Len(body)) % 256
  IN [j \in 1..TagSize |-> (mac + j) % 256]

\* aead.Seal(dst, nonce, plaintext, nil): dst followed by the encrypted
\* bytes and the tag
aeadSeal(key, dst, nonce, plaintext) ==
  LET body == streamXor(key, nonce, plaintext)
  IN dst \o body \o authTag(key, nonce, body)

\* aead.Open(nil, nonce, ciphertext, nil)
aeadOpen(key, nonce, ciphertext) ==
  IF Len(ciphertext) < TagSize
    THEN [err |-> "message authentication failed", data |-> <<>>]
  ELSE
    LET body == SubSeq(ciphertext, 1, Len(ciphertext) - TagSize)
        tag == SubSeq(ciphertext, Len(ciphertext) - TagSize + 1, Len(ciphertext))
    IN IF tag # authTag(key, nonce, body)
         THEN [err |-> "message authentication failed", data |-> <<>>]
         ELSE [err |-> Nil, data |-> streamXor(key, nonce, body)]

\* EncryptChunk(plaintext, key), nonce being the bytes rand.Read delivers
EncryptChunk(plaintext, key, nonce) ==
  IF Len(key) # KeySize THEN [err |-> "invalid key size", data |-> <<>>]
  ELSE [err |-> Nil, data |-> aeadSeal(key, nonce, nonce, plaintext)]

\* Fault variant of DecryptChunk: the nonce is not cut off the buffer
\* before it is opened
DecryptChunk_KeepsNonce(ciphertext, key) ==
  IF Len(key) # KeySize THEN [err |-> "invalid key size", data |-> <<>>]
  ELSE IF Len(ciphertext) < NonceSize
    THEN [err |-> "ciphertext too short", data |-> <<>>]
  ELSE
    LET nonce == SubSeq(ciphertext, 1, NonceSize)
        opened == aeadOpen(key, nonce, ciphertext)
    IN IF opened.err # Nil
         THEN [err |-> "decryption failed (wrong key or tampered data)", data |-> <<>>]
         ELSE [err |-> Nil, data |-> opened.data]

\* Fault variant of DecryptChunk: the error of Open is not looked at
DecryptChunk_ErrIgnored(ciphertext, key) ==
  IF Len(key) # KeySize THEN [err |-> "invalid key size", data |-> <<>>]
  ELSE IF Len(ciphertext) < NonceSize
    THEN [err |-> "ciphertext too short", data |-> <<>>]
  ELSE
    LET nonce == SubSeq(ciphertext, 1, NonceSize)
        rest == SubSeq(ciphertext, NonceSize + 1, Len(ciphertext))
        opened == aeadOpen(key, nonce, rest)
    IN [err |-> Nil, data |-> opened.data]

\* DecryptChunk(ciphertext, key)
DecryptChunk(ciphertext, key) ==
  IF Len(key) # KeySize THEN [err |-> "invalid key size", data |-> <<>>]
  ELSE IF Len(ciphertext) < NonceSize
    THEN [err |-> "ciphertext too short", data |-> <<>>]
  ELSE
    LET nonce == SubSeq(ciphertext, 1, NonceSize)
        rest == SubSeq(ciphertext, NonceSize + 1, Len(ciphertext))
        opened == aeadOpen(key, nonce, rest)
    IN IF opened.err # Nil
         THEN [err |-> "decryption failed (wrong key or tampered data)", data |-> <<>>]
         ELSE [err |-> Nil, data |-> opened.data]

VARIABLES
  c_chunk,     \* a chunk record as StreamChunkFile sends it
  c_key,       \* the encryption key
  c_cipher,    \* the result of EncryptChunk on the chunk's data
  c_direct,    \* the result of ShardChunk(chunk, ciphertext)
  c_resized,   \* the result of ShardChunk on the record resized to the ciphertext
  c_plain      \* the result of DecryptChunk on the ciphertext

cvars == <<c_chunk, c_key, c_cipher, c_direct, c_resized, c_plain>>

NoResult == [err |-> NotRun, data |-> <<>>]
NoShards == [err |-> NotRun, shards |-> <<>>]

\* the chunk records StreamChunkFile can send for the files of the model
StreamedChunks ==
  {Chunk(i, d) : i \in 0..((MaxFileLen - 1) \div ChunkSize),
                 d \in SeqsOf(FileBytes, 1, ChunkSize)}

CInit ==
  /\ c_chunk \in StreamedChunks
  /\ c_key \in Keys
  /\ c_cipher = NoResult
  /\ c_direct = NoShards
  /\ c_resized = NoShards
  /\ c_plain = NoResult

CIdle ==
  /\ c_chunk = ZeroChunk
  /\ c_key = <<>>
  /\ c_cipher = NoResult
  /\ c_direct = NoShards
  /\ c_resized = NoShards
  /\ c_plain = NoResult

\* crypto.EncryptChunk(chunk.Data, key)
CEncryptChunk ==
  /\ c_cipher.err = NotRun
  /\ \E nonce \in Nonces : c_cipher' = EncryptChunk(c_chunk.Data, c_key, nonce)
  /\ UNCHANGED <<c_chunk, c_key, c_direct, c_resized, c_plain>>

\* chunker.ShardChunk(chunk, ciphertext) with the record as it was streamed
CShardDirect ==
  /\ c_cipher.err = Nil /\ c_direct.err = NotRun
  /\ c_direct' = ShardChunk(c_chunk, c_cipher.data)
  /\ UNCHANGED <<c_chunk, c_key, c_cipher, c_resized, c_plain>>

\* chunker.ShardChunk on a record of the same index whose Size is the
\* length of the ciphertext
CShardResized ==
  /\ c_cipher.err = Nil /\ c_resized.err = NotRun
  /\ c_resized' = ShardChunk([c_chunk EXCEPT !.Size = Len(c_cipher.data)],
                             c_cipher.data)
  /\ UNCHANGED <<c_chunk, c_key, c_cipher, c_direct, c_plain>>

\* crypto.DecryptChunk(ciphertext, key)
CDecryptChunk ==
  /\ c_cipher.err = Nil /\ c_plain.err = NotRun
  /\ c_plain' = DecryptChunk(c_cipher.data, c_key)
  /\ UNCHANGED <<c_chunk, c_key, c_cipher, c_direct, c_resized>>

\* ------------------------------------------------------------------------
\* EncryptChunk and DecryptChunk on their own: a buffer is sealed, may be
\* altered or cut short on its way, and is opened with some key
\* ------------------------------------------------------------------------
\* longest plaintext handed to EncryptChunk
MaxPlainLen == 2

VARIABLES
  k_plain,    \* the plaintext
  k_key,      \* the key EncryptChunk is called with
  k_enc,      \* the result of EncryptChunk
  k_buf,      \* the buffer DecryptChunk is called with
  k_how,      \* how k_buf came from the sealed buffer: "none", "intact", "altered", "short"
  k_dkey,     \* the key DecryptChunk is called with
  k_dec       \* the result of DecryptChunk

kvars == <<k_plain, k_key, k_enc, k_buf, k_how, k_dkey, k_dec>>

\* the plaintexts of the tests, the empty one included
Plaintexts == SeqsOf({0, 255}, 0, MaxPlainLen)

\* ciphertext[i] ^= mask
AlterByte(buf, i, mask) == [buf EXCEPT ![i] = BitXor(buf[i], mask)]

KInit ==
  /\ k_plain \in Plaintexts
  /\ k_key \in Keys
  /\ k_enc = NoResult
  /\ k_buf = <<>>
  /\ k_how = "none"
  /\ k_dkey = <<>>
  /\ k_dec = NoResult

KIdle ==
  /\ k_plain = <<>>
  /\ k_key = <<>>
  /\ k_enc = NoResult
  /\ k_buf = <<>>
  /\ k_how = "none"
  /\ k_dkey = <<>>
  /\ k_dec = NoResult

\* ciphertext, err := EncryptChunk(plaintext, key)
KEncryptChunk ==
  /\ k_enc.err = NotRun
  /\ \E nonce \in Nonces : k_enc' = EncryptChunk(k_plain, k_key, nonce)
  /\ k_buf' = k_enc'.data
  /\ k_how' = IF k_enc'.err = Nil THEN "intact" ELSE "none"
  /\ UNCHANGED <<k_plain, k_key, k_dkey, k_dec>>

\* one byte of the nonce, of the encrypted bytes or of the tag is changed
KAlterByte ==
  /\ k_how = "intact" /\ k_dec.err = NotRun
  /\ \E i \in 1..Len(k_buf), mask \in {1, 255} : k_buf' = AlterByte(k_buf, i, mask)
  /\ k_how' = "altered"
  /\ UNCHANGED <<k_plain, k_key, k_enc, k_dkey, k_dec>>

\* the buffer is cut to fewer bytes than a nonce
KCutShort ==
  /\ k_how = "intact" /\ k_dec.err = NotRun
  /\ \E n \in 0..(NonceSize - 1) : k_buf' = SubSeq(k_buf, 1, n)
  /\ k_how' = "short"
  /\ UNCHANGED <<k_plain, k_key, k_enc, k_dkey, k_dec>>

\* DecryptChunk(ciphertext, key) with the sealing key or another one
KDecryptChunk ==
  /\ k_how # "none" /\ k_dec.err = NotRun
  /\ k_dkey' \in Keys
  /\ k_dec' = DecryptChunk(k_buf, k_dkey')
  /\ UNCHANGED <<k_plain, k_key, k_enc, k_buf, k_how>>

\* ========================================================================
\* Manifest (pkg/manifest)
\* ========================================================================
\* most chunk records in a manifest built by a direct caller of New
MaxManifestChunks == 2
\* most farmers in a farmer table
MaxFarmers == 2

ChunkMeta(index, hash, size) == [Index |-> index, Hash |-> hash, Size |-> size]

ShardMeta(chunkIndex, shardIndex, hash, size, farmerIndex) ==
  [ChunkIndex |-> chunkIndex, ShardIndex |-> shardIndex, Hash |-> hash,
   Size |-> size, FarmerIndex |-> farmerIndex]

FarmerInfo(index, address, endpoint, region) ==
  [Index |-> index, Address |-> address, Endpoint |-> endpoint, Region |-> region]

\* hex.EncodeToString: two digits 0..15 per byte, the high one first
HexEncode(bytes) ==
  [i \in 1..(2 * Len(bytes)) |->
     IF i % 2 = 1 THEN bytes[(i + 1) \div 2] \div 16 ELSE bytes[i \div 2] % 16]

\* generateBlobID from the 32 bytes rand.Read delivers
generateBlobID(random) == <<"0x">> \o HexEncode(random)

\* time.Time: the wall clock instant (seconds, nanoseconds), the zone offset
\* and the monotonic reading, 0 when the value carries none
Time(unix, nsec, offset, mono) ==
  [unix |-> unix, nsec |-> nsec, offset |-> offset, mono |-> mono]

\* time.Now(): a value that carries a monotonic reading
Now(unix, nsec, mono) == Time(unix, nsec, 0, mono)

\* Fault variant of New: the shard and farmer tables are not stored
New_WithoutTables(fileName, fileSize, originalHash, chunks, shards, farmers, encKey, publisher, random, now) ==
  [Version |-> "1.0",
   BlobID |-> generateBlobID(random),
   FileName |-> fileName,
   FileSize |-> fileSize,
   OriginalFileHash |-> originalHash,
   ChunkSize |-> ChunkSize,
   ChunkCount |-> Len(chunks),
   DataShards |-> DataShards,
   ParityShards |-> ParityShards,
   TotalShards |-> TotalShards,
   Chunks |-> chunks,
   Shards |-> <<>>,
   Farmers |-> <<>>,
   EncryptionKey |-> HexEncode(encKey),
   CreatedAt |-> now,
   PublisherAddress |-> publisher]

\* manifest.New; random is what rand.Read delivers to generateBlobID and
\* now what time.Now() returns
New(fileName, fileSize, originalHash, chunks, shards, farmers, encKey, publisher, random, now) ==
  [Version |-> "1.0",
   BlobID |-> generateBlobID(random),
   FileName |-> fileName,
   FileSize |-> fileSize,
   OriginalFileHash |-> originalHash,
   ChunkSize |-> ChunkSize,
   ChunkCount |-> Len(chunks),
   DataShards |-> DataShards,
   ParityShards |-> ParityShards,
   TotalShards |-> TotalShards,
   Chunks |-> chunks,
   Shards |-> shards,
   Farmers |-> farmers,
   EncryptionKey |-> HexEncode(encKey),
   CreatedAt |-> now,
   PublisherAddress |-> publisher]

\* the 32 random bytes of a blob id
BlobRandoms == {Fill(KeySize, 5), Fill(KeySize, 6)}

\* ------------------------------------------------------------------------
\* What Upload hands to New: processFile, buildFarmerInfo and buildManifest
\* ------------------------------------------------------------------------
RECURSIVE flatten(_, _)
\* the concatenation of the first n sequences of seqs
flatten(seqs, n) == IF n = 0 THEN <<>> ELSE flatten(seqs, n - 1) \o seqs[n]

\* processFile: every chunk of the file in index order, encrypted under key
\* with a nonce of its own and sharded under a record of the ciphertext's
\* size; err is the first error met
processFile(file, key) ==
  LET n == (Len(file) + ChunkSize - 1) \div ChunkSize
      chunkAt(k) == Chunk(k, SubSeq(file, k * ChunkSize + 1,
                                   Min(Len(file), (k + 1) * ChunkSize)))
      cipherAt(k) == EncryptChunk(chunkAt(k).Data, key, Fill(NonceSize, 3 + k))
      shardsAt(k) == ShardChunk([chunkAt(k) EXCEPT !.Size = Len(cipherAt(k).data)],
                                cipherAt(k).data)
      bad == {k \in 0..(n - 1) : cipherAt(k).err # Nil \/ shardsAt(k).err # Nil}
  IN IF bad # {}
       THEN [err |-> "failed to process file", chunks |-> <<>>, shards |-> <<>>]
       ELSE [err |-> Nil,
             chunks |-> [k \in 1..n |-> chunkAt(k - 1)],
             shards |-> flatten([k \in 1..n |-> shardsAt(k - 1).shards], n)]

\* buildFarmerInfo: one farmer per endpoint, indexed in input order
buildFarmerInfo(endpoints) ==
  [i \in 1..Len(endpoints) |-> FarmerInfo(i - 1, "", endpoints[i], "")]

\* the placement of a shard: shard index -> farmer index
farmerOf(shard, farmers) == shard.ShardIndex % Len(farmers)

\* buildManifest: the chunk and shard tables of the processed file, each
\* shard placed by farmerOf, handed to New
buildManifest(file, chunks, allShards, farmers, encKey, publisher, random) ==
  New("file", Len(file), Sha256Hex(file),
      [i \in 1..Len(chunks) |-> ChunkMeta(chunks[i].Index, chunks[i].Hash, chunks[i].Size)],
      [i \in 1..Len(allShards) |->
         ShardMeta(allShards[i].ChunkIndex, allShards[i].ShardIndex,
                   allShards[i].Hash, allShards[i].Size,
                   farmerOf(allShards[i], farmers))],
      farmers, encKey, publisher, random, Now(1, 0, 1))

\* ------------------------------------------------------------------------
\* Callers of New
\* ------------------------------------------------------------------------
VARIABLES
  m_origin,    \* who builds the manifest: "caller" or "upload"
  m_chunks,    \* the chunk table handed to New
  m_shards,    \* the shard table handed to New
  m_farmers,   \* the farmer table handed to New
  m_manifest,  \* the manifest New returned, or NoManifest
  m_disk,      \* the document Save wrote, or NoFile
  m_loaded,    \* what Load returned
  m_query      \* the query made of the manifest and its answer, or NoQuery

mvars == <<m_origin, m_chunks, m_shards, m_farmers, m_manifest, m_disk, m_loaded, m_query>>

NoManifest == [Version |-> "none"]

NoFile == [version |-> "no file"]

NoQuery == [op |-> "none"]

\* the shard indices a caller lists for each chunk
ShardIndexLists ==
  {<<>>, <<0, 1>>, <<0, 1, 2, 3, 4, 5>>, <<5, 4, 3, 2, 1, 0>>,
   <<0, 1, 2, 3, 4, 4>>, <<0, 1, 2, 3, 4, 6>>, <<0, 1, 2, 3, 4, 5, 5>>}

\* the farmer index a caller gives a shard
FarmerRules == {"modulo", "shard index", "negative"}

\* the Index a caller writes into the farmer records it hands to New: the
\* position of the record, or nothing (the zero value)
FarmerIndexRules == {"position", "unset"}

CallerFarmers(n, rule) ==
  [i \in 1..n |->
     FarmerInfo(IF rule = "position" THEN i - 1 ELSE 0,
                <<"0xFarmer", i>>, <<"https://f", i>>, "region")]

CallerChunks(n) == [i \in 1..n |-> ChunkMeta(i - 1, "hash", ChunkSize)]

\* a caller's shard table: for each chunk the shards of list, the chunk
\* index moved by shift
CallerShards(n, nf, list, rule, shift) ==
  flatten([c \in 1..n |->
             [j \in 1..Len(list) |->
                ShardMeta(c - 1 + shift, list[j], "shard", 1,
                          IF rule = "modulo" /\ nf > 0 THEN list[j] % nf
                          ELSE IF rule = "negative" THEN -1
                          ELSE list[j])]], n)

MInit ==
  /\ m_manifest = NoManifest
  /\ m_disk = NoFile
  /\ m_loaded = [err |-> NotRun, m |-> NoManifest]
  /\ m_query = NoQuery
  /\ \/ /\ m_origin = "caller"
        /\ \E n \in 0..MaxManifestChunks, nf \in 0..MaxFarmers,
              list \in ShardIndexLists, rule \in FarmerRules, shift \in {0, 1},
              frule \in FarmerIndexRules :
             /\ m_chunks = CallerChunks(n)
             /\ m_farmers = CallerFarmers(nf, frule)
             /\ m_shards = CallerShards(n, nf, list, rule, shift)
     \/ /\ m_origin = "upload"
        /\ \E len \in 0..MaxFileLen, nf \in 1..MaxFarmers, key \in GoodKeys :
             LET pf == processFile(Fill(len, 1), key)
                 fs == buildFarmerInfo(Fill(nf, "endpoint"))
                 m == buildManifest(Fill(len, 1), pf.chunks, pf.shards, fs,
                                    key, "0xPublisher", Fill(KeySize, 5))
             IN /\ m_chunks = m.Chunks
                /\ m_farmers = m.Farmers
                /\ m_shards = m.Shards

MIdle ==
  /\ m_origin = "caller"
  /\ m_chunks = <<>>
  /\ m_shards = <<>>
  /\ m_farmers = <<>>
  /\ m_manifest = NoManifest
  /\ m_disk = NoFile
  /\ m_loaded = [err |-> NotRun, m |-> NoManifest]
  /\ m_query = NoQuery

\* ------------------------------------------------------------------------
\* encoding/json as Save and Load use it. A Go string whose content matters
\* is a sequence of bytes; the text literals of the model ("hash", "1.0")
\* stand for plain ASCII text that JSON writes as it is.
\* ------------------------------------------------------------------------
\* a lower-case hexadecimal digit as a character
hexChar(d) == IF d < 10 THEN 48 + d ELSE 87 + d

\* the value of a hexadecimal digit character
hexVal(c) == IF c >= 48 /\ c <= 57 THEN c - 48 ELSE IF c >= 97 THEN c - 87 ELSE c - 55

\* \u00XX for a byte below 128
escapeByte(b) == <<92, 117, 48, 48, hexChar(b \div 16), hexChar(b % 16)>>

\* a two-byte UTF-8 sequence starts at s[i]; the strings of the model hold
\* no lead byte of a longer sequence (0xE0..0xF4)
validPair(s, i) ==
  /\ s[i] >= 194 /\ s[i] <= 223
  /\ i + 1 <= Len(s)
  /\ s[i + 1] >= 128 /\ s[i + 1] <= 191

RECURSIVE appendFrom(_, _)
\* the body of a JSON string for s[i..], HTML characters escaped: a byte
\* that starts no valid UTF-8 sequence is written as the escape of U+FFFD
appendFrom(s, i) ==
  IF i > Len(s) THEN <<>>
  ELSE
    LET b == s[i] IN
    IF b < 128 THEN
      (IF b = 34 \/ b = 92 THEN <<92, b>>
       ELSE IF b = 10 THEN <<92, 110>>
       ELSE IF b = 13 THEN <<92, 114>>
       ELSE IF b = 9 THEN <<92, 116>>
       ELSE IF b < 32 \/ b \in {60, 62, 38} THEN escapeByte(b)
       ELSE <<b>>) \o appendFrom(s, i + 1)
    ELSE IF validPair(s, i) THEN <<b, s[i + 1]>> \o appendFrom(s, i + 2)
    ELSE <<92, 117, 102, 102, 102, 100>> \o appendFrom(s, i + 1)

\* json: a Go string as a quoted JSON string
appendString(s) == <<34>> \o appendFrom(s, 1) \o <<34>>

\* utf8.AppendRune for a rune of the basic plane
utf8Encode(r) ==
  IF r < 128 THEN <<r>>
  ELSE IF r < 2048 THEN <<192 + (r \div 64), 128 + (r % 64)>>
  ELSE <<224 + (r \div 4096), 128 + ((r \div 64) % 64), 128 + (r % 64)>>

RECURSIVE unquoteFrom(_, _)
\* the Go string of the JSON string body t[i..]
unquoteFrom(t, i) ==
  IF i > Len(t) THEN <<>>
  ELSE IF t[i] # 92 THEN <<t[i]>> \o unquoteFrom(t, i + 1)
  ELSE
    LET c == t[i + 1] IN
    IF c = 117
      THEN utf8Encode(4096 * hexVal(t[i + 2]) + 256 * hexVal(t[i + 3])
                      + 16 * hexVal(t[i + 4]) + hexVal(t[i + 5]))
           \o unquoteFrom(t, i + 6)
    ELSE (IF c = 110 THEN <<10>>
          ELSE IF c = 114 THEN <<13>>
          ELSE IF c = 116 THEN <<9>>
          ELSE IF c = 98 THEN <<8>>
          ELSE IF c = 102 THEN <<12>>
          ELSE <<c>>) \o unquoteFrom(t, i + 2)

\* json: the Go string of a quoted JSON string Marshal wrote
unquote(q) == unquoteFrom(SubSeq(q, 2, Len(q) - 1), 1)

\* Time.MarshalJSON: the RFC 3339 text with nanoseconds and zone offset;
\* the monotonic reading is not part of it
marshalTime(t) == [unix |-> t.unix, nsec |-> t.nsec, offset |-> t.offset]

\* Time.UnmarshalJSON: the instant and offset of the text, no monotonic
\* reading
unmarshalTime(j) == Time(j.unix, j.nsec, j.offset, 0)

\* json.MarshalIndent(m): one member per struct field, named by its tag
Marshal(m) ==
  [version |-> m.Version,
   blob_id |-> m.BlobID,
   file_name |-> appendString(m.FileName),
   file_size |-> m.FileSize,
   original_file_hash |-> m.OriginalFileHash,
   chunk_size |-> m.ChunkSize,
   chunk_count |-> m.ChunkCount,
   data_shards |-> m.DataShards,
   parity_shards |-> m.ParityShards,
   total_shards |-> m.TotalShards,
   chunks |-> [i \in 1..Len(m.Chunks) |->
                 [index |-> m.Chunks[i].Index, hash |-> m.Chunks[i].Hash,
                  size |-> m.Chunks[i].Size]],
   shards |-> [i \in 1..Len(m.Shards) |->
                 [chunk_index |-> m.Shards[i].ChunkIndex,
                  shard_index |-> m.Shards[i].ShardIndex,
                  hash |-> m.Shards[i].Hash, size |-> m.Shards[i].Size,
                  farmer_index |-> m.Shards[i].FarmerIndex]],
   farmers |-> [i \in 1..Len(m.Farmers) |->
                  [index |-> m.Farmers[i].Index, address |-> m.Farmers[i].Address,
                   endpoint |-> m.Farmers[i].Endpoint, region |-> m.Farmers[i].Region]],
   encryption_key |-> m.EncryptionKey,
   created_at |-> marshalTime(m.CreatedAt),
   publisher_address |-> m.PublisherAddress]

\* json.Unmarshal(data, &m) on a document Marshal wrote
Unmarshal(j) ==
  [Version |-> j.version,
   BlobID |-> j.blob_id,
   FileName |-> unquote(j.file_name),
   FileSize |-> j.file_size,
   OriginalFileHash |-> j.original_file_hash,
   ChunkSize |-> j.chunk_size,
   ChunkCount |-> j.chunk_count,
   DataShards |-> j.data_shards,
   ParityShards |-> j.parity_shards,
   TotalShards |-> j.total_shards,
   Chunks |-> [i \in 1..Len(j.chunks) |->
                 ChunkMeta(j.chunks[i].index, j.chunks[i].hash, j.chunks[i].size)],
   Shards |-> [i \in 1..Len(j.shards) |->
                 ShardMeta(j.shards[i].chunk_index, j.shards[i].shard_index,
                           j.shards[i].hash, j.shards[i].size,
                           j.shards[i].farmer_index)],
   Farmers |-> [i \in 1..Len(j.farmers) |->
                  FarmerInfo(j.farmers[i].index, j.farmers[i].address,
                             j.farmers[i].endpoint, j.farmers[i].region)],
   EncryptionKey |-> j.encryption_key,
   CreatedAt |-> unmarshalTime(j.created_at),
   PublisherAddress |-> j.publisher_address]

\* Manifest.Save: the document written to the path
Save(m) == Marshal(m)

\* manifest.Load of a path: disk is the document there, or NoFile
Load(disk) ==
  IF disk = NoFile THEN [err |-> "failed to read manifest", m |-> NoManifest]
  ELSE [err |-> Nil, m |-> Unmarshal(disk)]

\* the file names handed to New: "t.bin", a quote and an ampersand, a line
\* feed, U+00E9 in UTF-8, and three names that are not UTF-8 (Latin-1 0xE9,
\* a cut two-byte sequence, 0xFF)
FileNames ==
  {<<116, 46, 98, 105, 110>>, <<34, 38>>, <<10>>, <<195, 169>>,
   <<233>>, <<116, 195>>, <<255, 116>>}

\* what time.Now() returns to New
Clock == {Now(1, 999999999, 7), Now(2, 0, 1)}

\* manifest.New is called with the tables
MNew ==
  /\ m_manifest = NoManifest
  /\ \E random \in BlobRandoms, name \in FileNames, now \in Clock :
       m_manifest' = New(name, ChunkSize * Len(m_chunks), "filehash",
                         m_chunks, m_shards, m_farmers, Fill(KeySize, 1),
                         "0xPublisher", random, now)
  /\ UNCHANGED <<m_origin, m_chunks, m_shards, m_farmers, m_disk, m_loaded, m_query>>

\* m.Save(path)
MSave ==
  /\ m_manifest # NoManifest
  /\ m_disk = NoFile
  /\ m_loaded.err = NotRun
  /\ m_query = NoQuery
  /\ m_disk' = Save(m_manifest)
  /\ UNCHANGED <<m_origin, m_chunks, m_shards, m_farmers, m_manifest, m_loaded, m_query>>

\* Load(path), of the path saved or of a path never written
MLoad ==
  /\ m_loaded.err = NotRun
  /\ m_query = NoQuery
  /\ m_loaded' = Load(m_disk)
  /\ UNCHANGED <<m_origin, m_chunks, m_shards, m_farmers, m_manifest, m_disk, m_query>>

\* ------------------------------------------------------------------------
\* The queries of a manifest
\* ------------------------------------------------------------------------
\* GetShardsForChunk: the shard records of the chunk, in table order
GetShardsForChunk(m, chunkIndex) ==
  SelectSeq(m.Shards, LAMBDA sh : sh.ChunkIndex = chunkIndex)

\* GetFarmerForShard: the farmer at position FarmerIndex as a list of one,
\* the empty list for nil
GetFarmerForShard(m, shard) ==
  IF shard.FarmerIndex >= 0 /\ shard.FarmerIndex < Len(m.Farmers)
    THEN <<m.Farmers[shard.FarmerIndex + 1]>>
    ELSE <<>>

RECURSIVE farmersLoop(_, _, _, _, _)
\* the loop of GetFarmersForChunk from shard k on: farmerMap holds the
\* farmer indices met, farmers the list built
farmersLoop(m, shards, k, farmerMap, farmers) ==
  IF k > Len(shards) THEN farmers
  ELSE IF shards[k].FarmerIndex \in farmerMap
    THEN farmersLoop(m, shards, k + 1, farmerMap, farmers)
  ELSE farmersLoop(m, shards, k + 1, farmerMap \cup {shards[k].FarmerIndex},
                   farmers \o GetFarmerForShard(m, shards[k]))

RECURSIVE farmersLoop_NoMap(_, _, _, _, _)
\* Fault variant of farmersLoop: the farmer indices met are not recorded
farmersLoop_NoMap(m, shards, k, farmerMap, farmers) ==
  IF k > Len(shards) THEN farmers
  ELSE farmersLoop_NoMap(m, shards, k + 1, farmerMap,
                         farmers \o GetFarmerForShard(m, shards[k]))

\* Fault variant of GetFarmersForChunk: no de-duplication
GetFarmersForChunk_NoMap(m, chunkIndex) ==
  farmersLoop_NoMap(m, GetShardsForChunk(m, chunkIndex), 1, {}, <<>>)

GetFarmersForChunk(m, chunkIndex) ==
  farmersLoop(m, GetShardsForChunk(m, chunkIndex), 1, {}, <<>>)

\* the chunk indices asked for: those of the table, one below, two above
QueriedChunks == (0 - 1)..(MaxManifestChunks + 1)

\* the shards asked about besides those of the table: farmer indices from
\* below 0 to past the end of the farmer table
ProbeShards == {ShardMeta(0, 0, "s", 1, f) : f \in (0 - 1)..(MaxFarmers + 1)}

\* m.GetFarmersForChunk(chunkIndex)
MGetFarmersForChunk ==
  /\ m_manifest # NoManifest
  /\ m_query = NoQuery
  /\ m_disk = NoFile /\ m_loaded.err = NotRun
  /\ \E c \in QueriedChunks :
       m_query' = [op |-> "GetFarmersForChunk", chunk |-> c,
                   out |-> GetFarmersForChunk(m_manifest, c)]
  /\ UNCHANGED <<m_origin, m_chunks, m_shards, m_farmers, m_manifest, m_disk, m_loaded>>

\* m.GetFarmerForShard(shard)
MGetFarmerForShard ==
  /\ m_manifest # NoManifest
  /\ m_query = NoQuery
  /\ m_disk = NoFile /\ m_loaded.err = NotRun
  /\ \E sh \in ProbeShards \cup {m_manifest.Shards[k] : k \in 1..Len(m_manifest.Shards)} :
       m_query' = [op |-> "GetFarmerForShard", shard |-> sh,
                   out |-> GetFarmerForShard(m_manifest, sh)]
  /\ UNCHANGED <<m_origin, m_chunks, m_shards, m_farmers, m_manifest, m_disk, m_loaded>>

\* ========================================================================
\* Upload orchestrator (pkg/publisher)
\* ========================================================================
\* largest Parallelism of a configuration
MaxParallelism == 2

VARIABLES
  u_config,     \* the UploadConfig
  u_file,       \* the bytes of the file at FilePath
  u_pc,         \* the step Upload is at
  u_encKey,     \* encKey
  u_chunks,     \* chunks, as processFile returned them
  u_allShards,  \* allShards, as processFile returned them
  u_m,          \* m, the manifest built, or NoManifest
  u_stats,      \* the UploadStats
  u_next,       \* how many shards of allShards were handed to workers
  u_inflight,   \* positions in allShards of the uploads in flight
  u_confirmed,  \* per chunk, the uploads the distributor counted as confirmed
  u_farmerOk,   \* per chunk, the uploads farmers confirmed
  u_farmerBad,  \* per chunk, the uploads that failed
  u_okSteps,    \* the steps that succeeded
  u_disk,       \* the file at OutputPath: "none", "partial" or "saved"
  u_ret         \* what Upload returned

uvars == <<u_config, u_file, u_pc, u_encKey, u_chunks, u_allShards, u_m,
           u_stats, u_next, u_inflight, u_confirmed, u_farmerOk, u_farmerBad,
           u_okSteps, u_disk, u_ret>>

UploadConfig(filePath, farmerEndpoints, parallelism) ==
  [FilePath |-> filePath, FarmerEndpoints |-> farmerEndpoints,
   PublisherAddress |-> "0xPublisher", OutputPath |-> "manifest.json",
   Parallelism |-> parallelism]

\* Errors is kept as a bag, workers appending in no fixed order: the chunk
\* index of every failed shard upload with the number of its failures
UploadStats == [ChunksProcessed |-> 0, ShardsCreated |-> 0, ShardsUploaded |-> 0,
                Errors |-> EmptyBag]

\* a nil manifest is NoManifest
NoReturn == [manifest |-> NoManifest, err |-> NotRun]

\* validateConfig: a file path, at least one farmer, a positive parallelism
validateConfig(config) ==
  IF config.FilePath = "" THEN "file path is required"
  ELSE IF Len(config.FarmerEndpoints) = 0 THEN "at least one farmer endpoint is required"
  ELSE IF config.Parallelism <= 0 THEN "parallelism must be positive"
  ELSE Nil

\* Fault variant of distributionError: the confirmations are summed over
\* the chunks
distributionError_Total(confirmed) ==
  LET RECURSIVE total(_)
      total(n) == IF n = 0 THEN 0 ELSE total(n - 1) + confirmed[n]
  IN IF total(Len(confirmed)) < DataShards * Len(confirmed)
       THEN "insufficient shards" ELSE Nil

\* what distributeShardsParallel returns once the worker pool has drained:
\* an error when a chunk has fewer than DataShards confirmed shards
distributionError(confirmed) ==
  IF \E c \in 1..Len(confirmed) : confirmed[c] < DataShards
    THEN "insufficient shards" ELSE Nil

UInit ==
  /\ \E path \in {"", "file"}, nf \in 0..MaxFarmers, par \in 0..MaxParallelism :
       u_config = UploadConfig(path, Fill(nf, "endpoint"), par)
  /\ \E len \in 0..MaxFileLen : u_file = Fill(len, 1)
  /\ u_pc = "Validating"
  /\ u_encKey = <<>>
  /\ u_chunks = <<>>
  /\ u_allShards = <<>>
  /\ u_m = NoManifest
  /\ u_stats = UploadStats
  /\ u_next = 0
  /\ u_inflight = {}
  /\ u_confirmed = <<>>
  /\ u_farmerOk = <<>>
  /\ u_farmerBad = <<>>
  /\ u_okSteps = {}
  /\ u_disk = "none"
  /\ u_ret = NoReturn

UIdle ==
  /\ u_config = UploadConfig("", <<>>, 0)
  /\ u_file = <<>>
  /\ u_pc = "Validating"
  /\ u_encKey = <<>>
  /\ u_chunks = <<>>
  /\ u_allShards = <<>>
  /\ u_m = NoManifest
  /\ u_stats = UploadStats
  /\ u_next = 0
  /\ u_inflight = {}
  /\ u_confirmed = <<>>
  /\ u_farmerOk = <<>>
  /\ u_farmerBad = <<>>
  /\ u_okSteps = {}
  /\ u_disk = "none"
  /\ u_ret = NoReturn

\* return nil, stats, fmt.Errorf(...)
UFail(err) ==
  /\ u_pc' = "Failed"
  /\ u_ret' = [manifest |-> NoManifest, err |-> err]

\* the step succeeded; Upload goes on to the step next
UGoOn(next) ==
  /\ u_okSteps' = u_okSteps \cup {u_pc}
  /\ u_pc' = next
  /\ UNCHANGED u_ret

\* Fault variant of UValidate: the result of validateConfig is dropped
UValidate_ErrorIgnored ==
  /\ u_pc = "Validating"
  /\ UGoOn("Hashing")
  /\ UNCHANGED <<u_config, u_file, u_encKey, u_chunks, u_allShards, u_m, u_stats,
                 u_next, u_inflight, u_confirmed, u_farmerOk, u_farmerBad, u_disk>>

\* validateConfig(config)
UValidate ==
  /\ u_pc = "Validating"
  /\ IF validateConfig(u_config) # Nil
       THEN UFail("invalid config") /\ UNCHANGED u_okSteps
       ELSE UGoOn("Hashing")
  /\ UNCHANGED <<u_config, u_file, u_encKey, u_chunks, u_allShards, u_m, u_stats,
                 u_next, u_inflight, u_confirmed, u_farmerOk, u_farmerBad, u_disk>>

\* manifest.CalculateFileHash(config.FilePath)
UHash ==
  /\ u_pc = "Hashing"
  /\ UGoOn("KeyGeneration")
  /\ UNCHANGED <<u_config, u_file, u_encKey, u_chunks, u_allShards, u_m, u_stats,
                 u_next, u_inflight, u_confirmed, u_farmerOk, u_farmerBad, u_disk>>

\* the file cannot be read
UHashFails ==
  /\ u_pc = "Hashing"
  /\ UFail("failed to hash file")
  /\ UNCHANGED <<u_config, u_file, u_encKey, u_chunks, u_allShards, u_m, u_stats,
                 u_next, u_inflight, u_confirmed, u_farmerOk, u_farmerBad, u_disk,
                 u_okSteps>>

\* crypto.GenerateKey()
UGenerateKey ==
  /\ u_pc = "KeyGeneration"
  /\ \E key \in GoodKeys : u_encKey' = key
  /\ UGoOn("Processing")
  /\ UNCHANGED <<u_config, u_file, u_chunks, u_allShards, u_m, u_stats,
                 u_next, u_inflight, u_confirmed, u_farmerOk, u_farmerBad, u_disk>>

\* Fault variant of UGenerateKeyFails: the error of GenerateKey is not
\* returned and Upload goes on without a key
UGenerateKeyFails_GoesOn ==
  /\ u_pc = "KeyGeneration"
  /\ u_pc' = "Processing"
  /\ UNCHANGED <<u_config, u_file, u_encKey, u_chunks, u_allShards, u_m, u_stats,
                 u_next, u_inflight, u_confirmed, u_farmerOk, u_farmerBad, u_disk,
                 u_okSteps, u_ret>>

\* rand.Read fails
UGenerateKeyFails ==
  /\ u_pc = "KeyGeneration"
  /\ UFail("failed to generate key")
  /\ UNCHANGED <<u_config, u_file, u_encKey, u_chunks, u_allShards, u_m, u_stats,
                 u_next, u_inflight, u_confirmed, u_farmerOk, u_farmerBad, u_disk,
                 u_okSteps>>

\* processFile(config.FilePath, encKey, stats)
UProcess ==
  /\ u_pc = "Processing"
  /\ LET pf == processFile(u_file, u_encKey) IN
       IF pf.err # Nil
         THEN /\ UFail("failed to process file")
              /\ UNCHANGED <<u_chunks, u_allShards, u_stats, u_okSteps>>
         ELSE /\ u_chunks' = pf.chunks
              /\ u_allShards' = pf.shards
              /\ u_stats' = [u_stats EXCEPT !.ChunksProcessed = Len(pf.chunks),
                                            !.ShardsCreated = Len(pf.shards)]
              /\ UGoOn("ManifestBuilding")
  /\ UNCHANGED <<u_config, u_file, u_encKey, u_m, u_next, u_inflight,
                 u_confirmed, u_farmerOk, u_farmerBad, u_disk>>

\* reading the file fails while it is processed
UProcessFails ==
  /\ u_pc = "Processing"
  /\ UFail("failed to process file")
  /\ UNCHANGED <<u_config, u_file, u_encKey, u_chunks, u_allShards, u_m, u_stats,
                 u_next, u_inflight, u_confirmed, u_farmerOk, u_farmerBad, u_disk,
                 u_okSteps>>

\* buildFarmerInfo and buildManifest; the tallies of the distribution start
UBuildManifest ==
  /\ u_pc = "ManifestBuilding"
  /\ \E random \in BlobRandoms :
       u_m' = buildManifest(u_file, u_chunks, u_allShards,
                            buildFarmerInfo(u_config.FarmerEndpoints),
                            u_encKey, u_config.PublisherAddress, random)
  /\ u_confirmed' = [c \in 1..Len(u_chunks) |-> 0]
  /\ u_farmerOk' = [c \in 1..Len(u_chunks) |-> 0]
  /\ u_farmerBad' = [c \in 1..Len(u_chunks) |-> 0]
  /\ UGoOn("Distributing")
  /\ UNCHANGED <<u_config, u_file, u_encKey, u_chunks, u_allShards, u_stats,
                 u_next, u_inflight, u_disk>>

\* a free worker of the pool takes the next shard and sends it to its farmer
UDispatch ==
  /\ u_pc = "Distributing"
  /\ u_next < Len(u_allShards)
  /\ Cardinality(u_inflight) < u_config.Parallelism
  /\ u_next' = u_next + 1
  /\ u_inflight' = u_inflight \cup {u_next + 1}
  /\ UNCHANGED <<u_config, u_file, u_pc, u_encKey, u_chunks, u_allShards, u_m,
                 u_stats, u_confirmed, u_farmerOk, u_farmerBad, u_okSteps,
                 u_disk, u_ret>>

\* the farmer confirms a shard with the hash that was sent
UShardConfirmed ==
  /\ u_pc = "Distributing"
  /\ \E j \in u_inflight :
       LET c == u_allShards[j].ChunkIndex + 1 IN
       /\ u_inflight' = u_inflight \ {j}
       /\ u_confirmed' = [u_confirmed EXCEPT ![c] = @ + 1]
       /\ u_farmerOk' = [u_farmerOk EXCEPT ![c] = @ + 1]
       /\ u_stats' = [u_stats EXCEPT !.ShardsUploaded = @ + 1]
  /\ UNCHANGED <<u_config, u_file, u_pc, u_encKey, u_chunks, u_allShards, u_m,
                 u_next, u_farmerBad, u_okSteps, u_disk, u_ret>>

\* the upload of a shard fails: no answer, a refusal or another hash
UShardFailed ==
  /\ u_pc = "Distributing"
  /\ \E j \in u_inflight :
       LET c == u_allShards[j].ChunkIndex + 1 IN
       /\ u_inflight' = u_inflight \ {j}
       /\ u_farmerBad' = [u_farmerBad EXCEPT ![c] = @ + 1]
       /\ u_stats' = [u_stats EXCEPT !.Errors = @ (+) SetToBag({c - 1})]
  /\ UNCHANGED <<u_config, u_file, u_pc, u_encKey, u_chunks, u_allShards, u_m,
                 u_next, u_confirmed, u_farmerOk, u_okSteps, u_disk, u_ret>>

\* Fault variant of UDistributed: the error of the distribution is dropped
UDistributed_ErrorDropped ==
  /\ u_pc = "Distributing"
  /\ u_next = Len(u_allShards) /\ u_inflight = {}
  /\ u_pc' = "Persisting"
  /\ u_okSteps' = IF distributionError(u_confirmed) # Nil THEN u_okSteps
                  ELSE u_okSteps \cup {u_pc}
  /\ UNCHANGED <<u_config, u_file, u_encKey, u_chunks, u_allShards, u_m, u_stats,
                 u_next, u_inflight, u_confirmed, u_farmerOk, u_farmerBad, u_disk,
                 u_ret>>

\* distributeShardsParallel returns once the pool has drained
UDistributed ==
  /\ u_pc = "Distributing"
  /\ u_next = Len(u_allShards) /\ u_inflight = {}
  /\ IF distributionError(u_confirmed) # Nil
       THEN UFail("failed to distribute shards") /\ UNCHANGED u_okSteps
       ELSE UGoOn("Persisting")
  /\ UNCHANGED <<u_config, u_file, u_encKey, u_chunks, u_allShards, u_m, u_stats,
                 u_next, u_inflight, u_confirmed, u_farmerOk, u_farmerBad, u_disk>>

\* m.Save(config.OutputPath), then return m, stats, nil
USave ==
  /\ u_pc = "Persisting"
  /\ u_disk' = "saved"
  /\ u_okSteps' = u_okSteps \cup {u_pc}
  /\ u_pc' = "Done"
  /\ u_ret' = [manifest |-> u_m, err |-> Nil]
  /\ UNCHANGED <<u_config, u_file, u_encKey, u_chunks, u_allShards, u_m, u_stats,
                 u_next, u_inflight, u_confirmed, u_farmerOk, u_farmerBad>>

\* os.WriteFile fails, before or after it has written some of the manifest
USaveFails ==
  /\ u_pc = "Persisting"
  /\ u_disk' \in {"none", "partial"}
  /\ UFail("failed to save manifest")
  /\ UNCHANGED <<u_config, u_file, u_encKey, u_chunks, u_allShards, u_m, u_stats,
                 u_next, u_inflight, u_confirmed, u_farmerOk, u_farmerBad,
                 u_okSteps>>


\* ------------------------------------------------------------------------
\* The caller's wish to cancel. Upload(config) and its call of
\* distributeShardsParallel take no context, channel or deadline, so the
\* wish is state of the caller that no step of Upload reads.
\* ------------------------------------------------------------------------
VARIABLES
  x_cancel     \* the caller has asked for the upload to be cancelled

xvars == <<x_cancel>>

XIdle == x_cancel = FALSE

\* the caller decides to cancel while the shards are being distributed
XCancel ==
  /\ u_pc = "Distributing"
  /\ x_cancel = FALSE
  /\ x_cancel' = TRUE

\* ========================================================================
\* Specifications
\* ========================================================================
\* ========================================================================
\* The statistics of the worker pool (pkg/publisher, Distributing)
\* ========================================================================
\* shards handed to the pool in the statistics harness
MaxPoolShards == 3
\* workers of the pool in the statistics harness
PoolWorkers == 2

VARIABLES
  w_next,     \* the next shard to hand to a worker
  w_pc,       \* where each worker stands
  w_job,      \* the shard each worker holds, 0 for none
  w_ok,       \* whether the upload of the shard a worker holds was confirmed
  w_seen,     \* the UploadStats value a worker read for its update
  w_mutex,    \* the worker holding the guard of the statistics, 0 for none
  w_stats,    \* the shared UploadStats
  w_outcome   \* for each shard how its upload ended: "", "confirmed", "failed"

wvars == <<w_next, w_pc, w_job, w_ok, w_seen, w_mutex, w_stats, w_outcome>>

Workers == 1..PoolWorkers

\* the size in bytes of shard j of the harness
poolShardSize(j) == j * j

\* the counters and the error list the workers share
PoolStats == [ShardsUploaded |-> 0, BytesUploaded |-> 0, Errors |-> <<>>]

WInit ==
  /\ w_next = 1
  /\ w_pc = [w \in Workers |-> "idle"]
  /\ w_job = [w \in Workers |-> 0]
  /\ w_ok = [w \in Workers |-> FALSE]
  /\ w_seen = [w \in Workers |-> PoolStats]
  /\ w_mutex = 0
  /\ w_stats = PoolStats
  /\ w_outcome = [j \in 1..MaxPoolShards |-> ""]

WIdle ==
  /\ w_next = 0
  /\ w_pc = <<>>
  /\ w_job = <<>>
  /\ w_ok = <<>>
  /\ w_seen = <<>>
  /\ w_mutex = 0
  /\ w_stats = PoolStats
  /\ w_outcome = <<>>

\* a free worker takes the next shard
WTake(w) ==
  /\ w_pc[w] = "idle"
  /\ w_next <= MaxPoolShards
  /\ w_job' = [w_job EXCEPT ![w] = w_next]
  /\ w_next' = w_next + 1
  /\ w_pc' = [w_pc EXCEPT ![w] = "uploading"]
  /\ UNCHANGED <<w_ok, w_seen, w_mutex, w_stats, w_outcome>>

\* the upload of the worker's shard ends, confirmed or failed
WUploaded(w) ==
  /\ w_pc[w] = "uploading"
  /\ \E ok \in BOOLEAN :
       /\ w_ok' = [w_ok EXCEPT ![w] = ok]
       /\ w_outcome' = [w_outcome EXCEPT ![w_job[w]] = IF ok THEN "confirmed" ELSE "failed"]
  /\ w_pc' = [w_pc EXCEPT ![w] = "locking"]
  /\ UNCHANGED <<w_next, w_job, w_seen, w_mutex, w_stats>>

\* Fault variant of WLock: the guard is taken whoever holds it
WLock_Unguarded(w) ==
  /\ w_pc[w] = "locking"
  /\ w_mutex' = w
  /\ w_pc' = [w_pc EXCEPT ![w] = "reading"]
  /\ UNCHANGED <<w_next, w_job, w_ok, w_seen, w_stats, w_outcome>>

\* the worker takes the guard of the statistics once it is free
WLock(w) ==
  /\ w_pc[w] = "locking"
  /\ w_mutex = 0
  /\ w_mutex' = w
  /\ w_pc' = [w_pc EXCEPT ![w] = "reading"]
  /\ UNCHANGED <<w_next, w_job, w_ok, w_seen, w_stats, w_outcome>>

\* the worker reads the statistics it is about to update
WRead(w) ==
  /\ w_pc[w] = "reading"
  /\ w_seen' = [w_seen EXCEPT ![w] = w_stats]
  /\ w_pc' = [w_pc EXCEPT ![w] = "writing"]
  /\ UNCHANGED <<w_next, w_job, w_ok, w_mutex, w_stats, w_outcome>>

\* the worker writes the statistics back: one more shard and its bytes, or
\* one more error
WWrite(w) ==
  /\ w_pc[w] = "writing"
  /\ w_stats' =
       IF w_ok[w]
         THEN [w_seen[w] EXCEPT !.ShardsUploaded = @ + 1,
                                !.BytesUploaded = @ + poolShardSize(w_job[w])]
         ELSE [w_seen[w] EXCEPT !.Errors = Append(@, w_job[w])]
  /\ w_pc' = [w_pc EXCEPT ![w] = "unlocking"]
  /\ UNCHANGED <<w_next, w_job, w_ok, w_seen, w_mutex, w_outcome>>

\* the worker releases the guard and is free again
WUnlock(w) ==
  /\ w_pc[w] = "unlocking"
  /\ w_mutex' = 0
  /\ w_job' = [w_job EXCEPT ![w] = 0]
  /\ w_pc' = [w_pc EXCEPT ![w] = "idle"]
  /\ UNCHANGED <<w_next, w_ok, w_seen, w_stats, w_outcome>>

\* ========================================================================
\* The batch chunker ChunkFile beside StreamChunkFile
\* ========================================================================
VARIABLES
  b_file,     \* the bytes of the source file
  b_off,      \* how far ChunkFile has read
  b_chunks,   \* chunks, the slice ChunkFile accumulates
  b_ret,      \* what ChunkFile returned
  b_stream    \* the chunks StreamChunkFile delivers for the file

bvars == <<b_file, b_off, b_chunks, b_ret, b_stream>>

RECURSIVE streamLoop(_, _, _)
\* the chunks the read loop of StreamChunkFile sends from offset off on,
\* the source reporting no error
streamLoop(file, off, index) ==
  LET r == ReadFull(file, off) IN
  IF r.err = "EOF" THEN <<>>
  ELSE <<Chunk(index, r.data)>>
         \o (IF r.n < ChunkSize THEN <<>> ELSE streamLoop(file, off + r.n, index + 1))

\* the chunk sequence StreamChunkFile delivers for a readable file
StreamChunkFile(file) == [err |-> Nil, chunks |-> streamLoop(file, 0, 0)]

BInit ==
  /\ b_file \in Files
  /\ b_off = 0
  /\ b_chunks = <<>>
  /\ b_ret = [err |-> NotRun, chunks |-> <<>>]
  /\ b_stream = [err |-> NotRun, chunks |-> <<>>]

BIdle ==
  /\ b_file = <<>>
  /\ b_off = 0
  /\ b_chunks = <<>>
  /\ b_ret = [err |-> NotRun, chunks |-> <<>>]
  /\ b_stream = [err |-> NotRun, chunks |-> <<>>]

\* os.Open fails
BOpenFails ==
  /\ b_ret.err = NotRun /\ b_off = 0 /\ b_chunks = <<>>
  /\ b_ret' = [err |-> "failed to open file", chunks |-> <<>>]
  /\ UNCHANGED <<b_file, b_off, b_chunks, b_stream>>

\* one pass of the loop of ChunkFile: file.Read(buffer) returns n bytes,
\* at least one and at most what the buffer and the file hold, and the
\* bytes become the next chunk
BRead ==
  /\ b_ret.err = NotRun
  /\ b_off < Len(b_file)
  /\ \E n \in 1..Min(ChunkSize, Len(b_file) - b_off) :
       /\ b_chunks' = Append(b_chunks,
                             Chunk(Len(b_chunks), SubSeq(b_file, b_off + 1, b_off + n)))
       /\ b_off' = b_off + n
  /\ UNCHANGED <<b_file, b_ret, b_stream>>

\* file.Read fails with an error other than io.EOF
BReadFails ==
  /\ b_ret.err = NotRun
  /\ b_ret' = [err |-> "failed to read chunk", chunks |-> <<>>]
  /\ UNCHANGED <<b_file, b_off, b_chunks, b_stream>>

\* file.Read returns io.EOF at the end of the file; ChunkFile returns
BEOF ==
  /\ b_ret.err = NotRun
  /\ b_off = Len(b_file)
  /\ b_ret' = [err |-> Nil, chunks |-> b_chunks]
  /\ UNCHANGED <<b_file, b_off, b_chunks, b_stream>>

\* StreamChunkFile is run on the same file and drained
BStream ==
  /\ b_stream.err = NotRun
  /\ b_stream' = StreamChunkFile(b_file)
  /\ UNCHANGED <<b_file, b_off, b_chunks, b_ret>>

\* ========================================================================
\* The hand-off of the collected chunks to AssembleChunks over a channel
\* ========================================================================
\* the largest capacity of the channel a sender hands to AssembleChunks
MaxHandOffBuffer == 1

VARIABLES
  h_pc,      \* where AssembleChunks stands: "idle", "loop", "returned"
  h_cap,     \* the capacity of chunkStream, 0 for an unbuffered channel
  h_total,   \* totalChunks
  h_next,    \* how many chunks the sender has sent
  h_chan,    \* the chunks buffered in chunkStream
  h_closed,  \* the sender has closed chunkStream
  h_st,      \* the output file and the tracking of AssembleChunks
  h_err,     \* the error AssembleChunks returned
  h_nrecv    \* how many chunks AssembleChunks has received

hvars == <<h_pc, h_cap, h_total, h_next, h_chan, h_closed, h_st, h_err, h_nrecv>>

NoTracking == [file |-> <<>>, written |-> {}, received |-> <<>>, unique |-> 0, err |-> Nil]

HInit ==
  /\ h_pc = "idle"
  /\ h_cap = 0
  /\ h_total = 0
  /\ h_next = 0
  /\ h_chan = <<>>
  /\ h_closed = FALSE
  /\ h_st = NoTracking
  /\ h_err = NotRun
  /\ h_nrecv = 0

\* the sender goroutine and AssembleChunks are started on a channel of some
\* capacity; os.Create succeeds
HStart ==
  /\ s_done /\ h_pc = "idle"
  /\ \E total \in 0..(Len(Collected) + 1), cap \in 0..MaxHandOffBuffer :
       /\ h_total' = total
       /\ h_cap' = cap
       /\ h_st' = [NoTracking EXCEPT !.received = [i \in 1..total |-> FALSE]]
  /\ h_pc' = "loop"
  /\ UNCHANGED <<h_next, h_chan, h_closed, h_err, h_nrecv>>

\* the same with os.Create failing: AssembleChunks returns at once
HStartFails ==
  /\ s_done /\ h_pc = "idle"
  /\ \E total \in 0..(Len(Collected) + 1), cap \in 0..MaxHandOffBuffer :
       /\ h_total' = total
       /\ h_cap' = cap
  /\ h_pc' = "returned"
  /\ h_err' = "failed to create output file"
  /\ UNCHANGED <<h_next, h_chan, h_closed, h_st, h_nrecv>>

\* the loop body of AssembleChunks for a received chunk; WriteAt may fail
\* after some of the bytes
HHandle(chunk) ==
  \E wrote \in (0 - 1)..(Len(chunk.Data) - 1) :
    LET st == AssembleStep(h_st, h_total, chunk, wrote) IN
    /\ h_st' = [st EXCEPT !.err = Nil]
    /\ h_nrecv' = h_nrecv + 1
    /\ IF st.err = Nil
         THEN UNCHANGED <<h_pc, h_err>>
         ELSE h_pc' = "returned" /\ h_err' = st.err

\* the sender's send on a buffered channel that has room
HSend ==
  /\ h_pc # "idle" /\ ~h_closed
  /\ h_next < Len(Collected)
  /\ Len(h_chan) < h_cap
  /\ h_chan' = Append(h_chan, Collected[h_next + 1].Chunk)
  /\ h_next' = h_next + 1
  /\ UNCHANGED <<h_pc, h_cap, h_total, h_closed, h_st, h_err, h_nrecv>>

\* Fault variant of HRecv: the stream is drained after AssembleChunks has
\* met an error
HRecv_Drains ==
  /\ h_pc \in {"loop", "returned"}
  /\ h_chan # <<>>
  /\ h_chan' = Tail(h_chan)
  /\ IF h_pc = "loop"
       THEN HHandle(Head(h_chan))
       ELSE h_nrecv' = h_nrecv + 1 /\ UNCHANGED <<h_pc, h_err, h_st>>
  /\ UNCHANGED <<h_cap, h_total, h_next, h_closed>>

\* the range loop of AssembleChunks receives the oldest buffered chunk
HRecv ==
  /\ h_pc = "loop"
  /\ h_chan # <<>>
  /\ h_chan' = Tail(h_chan)
  /\ HHandle(Head(h_chan))
  /\ UNCHANGED <<h_cap, h_total, h_next, h_closed>>

\* on an unbuffered channel the send and the receive happen together
HHandOver ==
  /\ h_pc = "loop" /\ ~h_closed
  /\ h_cap = 0
  /\ h_next < Len(Collected)
  /\ h_next' = h_next + 1
  /\ HHandle(Collected[h_next + 1].Chunk)
  /\ UNCHANGED <<h_cap, h_total, h_chan, h_closed>>

\* the sender has sent every chunk and closes the channel
HClose ==
  /\ h_pc # "idle" /\ ~h_closed
  /\ h_next = Len(Collected)
  /\ h_closed' = TRUE
  /\ UNCHANGED <<h_pc, h_cap, h_total, h_next, h_chan, h_st, h_err, h_nrecv>>

\* the range loop ends on the closed, drained channel; the final check
HFinish ==
  /\ h_pc = "loop" /\ h_closed /\ h_chan = <<>>
  /\ h_pc' = "returned"
  /\ h_err' = AssembleFinish(h_st.unique, h_total)
  /\ UNCHANGED <<h_cap, h_total, h_next, h_chan, h_closed, h_st, h_nrecv>>

vars == <<evars, svars, avars, cvars, kvars, mvars, uvars, xvars, dvars, wvars, bvars, hvars>>

ENext ==
  \/ EShardChunk /\ UNCHANGED <<svars, avars, cvars, kvars, mvars, uvars, xvars, dvars, wvars, bvars, hvars>>
  \/ ESupplyHonest /\ UNCHANGED <<svars, avars, cvars, kvars, mvars, uvars, xvars, dvars, wvars, bvars, hvars>>
  \/ ESupplyTampered /\ UNCHANGED <<svars, avars, cvars, kvars, mvars, uvars, xvars, dvars, wvars, bvars, hvars>>
  \/ ESupplyForeign /\ UNCHANGED <<svars, avars, cvars, kvars, mvars, uvars, xvars, dvars, wvars, bvars, hvars>>
  \/ ESupplyBadIndex /\ UNCHANGED <<svars, avars, cvars, kvars, mvars, uvars, xvars, dvars, wvars, bvars, hvars>>
  \/ EReconstructChunk /\ UNCHANGED <<svars, avars, cvars, kvars, mvars, uvars, xvars, dvars, wvars, bvars, hvars>>

InitErasure == EInit /\ SIdle /\ AInit /\ CIdle /\ KIdle /\ MIdle /\ UIdle /\ XIdle /\ DIdle /\ WIdle /\ BIdle /\ HInit

SpecErasure == InitErasure /\ [][ENext]_vars

PNext ==
  \/ SOpen /\ UNCHANGED <<evars, avars, cvars, kvars, mvars, uvars, xvars, dvars, wvars, bvars, hvars>>
  \/ SOpenFails /\ UNCHANGED <<evars, avars, cvars, kvars, mvars, uvars, xvars, dvars, wvars, bvars, hvars>>
  \/ SRead /\ UNCHANGED <<evars, avars, cvars, kvars, mvars, uvars, xvars, dvars, wvars, bvars, hvars>>
  \/ SReadFails /\ UNCHANGED <<evars, avars, cvars, kvars, mvars, uvars, xvars, dvars, wvars, bvars, hvars>>
  \/ SSend /\ UNCHANGED <<evars, avars, cvars, kvars, mvars, uvars, xvars, dvars, wvars, bvars, hvars>>
  \/ SSendErr /\ UNCHANGED <<evars, avars, cvars, kvars, mvars, uvars, xvars, dvars, wvars, bvars, hvars>>
  \/ SRecv /\ UNCHANGED <<evars, avars, cvars, kvars, mvars, uvars, xvars, dvars, wvars, bvars, hvars>>
  \/ SRecvClosed /\ UNCHANGED <<evars, avars, cvars, kvars, mvars, uvars, xvars, dvars, wvars, bvars, hvars>>
  \/ ACreate /\ UNCHANGED <<evars, svars, cvars, kvars, mvars, uvars, xvars, dvars, wvars, bvars, hvars>>
  \/ ACreateFails /\ UNCHANGED <<evars, svars, cvars, kvars, mvars, uvars, xvars, dvars, wvars, bvars, hvars>>
  \/ ADeliver /\ UNCHANGED <<evars, svars, cvars, kvars, mvars, uvars, xvars, dvars, wvars, bvars, hvars>>
  \/ ADeliverWriteFails /\ UNCHANGED <<evars, svars, cvars, kvars, mvars, uvars, xvars, dvars, wvars, bvars, hvars>>
  \/ AClose /\ UNCHANGED <<evars, svars, cvars, kvars, mvars, uvars, xvars, dvars, wvars, bvars, hvars>>
  \/ AFinish /\ UNCHANGED <<evars, svars, cvars, kvars, mvars, uvars, xvars, dvars, wvars, bvars, hvars>>

InitPipeline == EIdle /\ SInit /\ AInit /\ CIdle /\ KIdle /\ MIdle /\ UIdle /\ XIdle /\ DIdle /\ WIdle /\ BIdle /\ HInit

SpecPipeline == InitPipeline /\ [][PNext]_vars

\* StreamChunkFile and a consumer that only receives
SNext ==
  \/ SOpen /\ UNCHANGED <<evars, avars, cvars, kvars, mvars, uvars, xvars, dvars, wvars, bvars, hvars>>
  \/ SOpenFails /\ UNCHANGED <<evars, avars, cvars, kvars, mvars, uvars, xvars, dvars, wvars, bvars, hvars>>
  \/ SRead /\ UNCHANGED <<evars, avars, cvars, kvars, mvars, uvars, xvars, dvars, wvars, bvars, hvars>>
  \/ SReadFails /\ UNCHANGED <<evars, avars, cvars, kvars, mvars, uvars, xvars, dvars, wvars, bvars, hvars>>
  \/ SSend /\ UNCHANGED <<evars, avars, cvars, kvars, mvars, uvars, xvars, dvars, wvars, bvars, hvars>>
  \/ SSendErr /\ UNCHANGED <<evars, avars, cvars, kvars, mvars, uvars, xvars, dvars, wvars, bvars, hvars>>
  \/ SRecv /\ UNCHANGED <<evars, avars, cvars, kvars, mvars, uvars, xvars, dvars, wvars, bvars, hvars>>
  \/ SRecvClosed /\ UNCHANGED <<evars, avars, cvars, kvars, mvars, uvars, xvars, dvars, wvars, bvars, hvars>>

InitStream == EIdle /\ SInitLong /\ AInit /\ CIdle /\ KIdle /\ MIdle /\ UIdle /\ XIdle /\ DIdle /\ WIdle /\ BIdle /\ HInit

SpecStream == InitStream /\ [][SNext]_vars

CNext ==
  \/ CEncryptChunk /\ UNCHANGED <<evars, svars, avars, kvars, mvars, uvars, xvars, dvars, wvars, bvars, hvars>>
  \/ CShardDirect /\ UNCHANGED <<evars, svars, avars, kvars, mvars, uvars, xvars, dvars, wvars, bvars, hvars>>
  \/ CShardResized /\ UNCHANGED <<evars, svars, avars, kvars, mvars, uvars, xvars, dvars, wvars, bvars, hvars>>
  \/ CDecryptChunk /\ UNCHANGED <<evars, svars, avars, kvars, mvars, uvars, xvars, dvars, wvars, bvars, hvars>>

InitProcessing == EIdle /\ SIdle /\ AInit /\ CInit /\ KIdle /\ MIdle /\ UIdle /\ XIdle /\ DIdle /\ WIdle /\ BIdle /\ HInit

SpecProcessing == InitProcessing /\ [][CNext]_vars

MNext ==
  \/ MNew /\ UNCHANGED <<evars, svars, avars, cvars, kvars, uvars, xvars, dvars, wvars, bvars, hvars>>
  \/ MSave /\ UNCHANGED <<evars, svars, avars, cvars, kvars, uvars, xvars, dvars, wvars, bvars, hvars>>
  \/ MLoad /\ UNCHANGED <<evars, svars, avars, cvars, kvars, uvars, xvars, dvars, wvars, bvars, hvars>>
  \/ MGetFarmersForChunk /\ UNCHANGED <<evars, svars, avars, cvars, kvars, uvars, xvars, dvars, wvars, bvars, hvars>>
  \/ MGetFarmerForShard /\ UNCHANGED <<evars, svars, avars, cvars, kvars, uvars, xvars, dvars, wvars, bvars, hvars>>

InitManifest == EIdle /\ SIdle /\ AInit /\ CIdle /\ KIdle /\ MInit /\ UIdle /\ XIdle /\ DIdle /\ WIdle /\ BIdle /\ HInit

SpecManifest == InitManifest /\ [][MNext]_vars

UNext ==
  \/ UValidate /\ UNCHANGED <<evars, svars, avars, cvars, kvars, mvars, xvars, dvars, wvars, bvars, hvars>>
  \/ UHash /\ UNCHANGED <<evars, svars, avars, cvars, kvars, mvars, xvars, dvars, wvars, bvars, hvars>>
  \/ UHashFails /\ UNCHANGED <<evars, svars, avars, cvars, kvars, mvars, xvars, dvars, wvars, bvars, hvars>>
  \/ UGenerateKey /\ UNCHANGED <<evars, svars, avars, cvars, kvars, mvars, xvars, dvars, wvars, bvars, hvars>>
  \/ UGenerateKeyFails /\ UNCHANGED <<evars, svars, avars, cvars, kvars, mvars, xvars, dvars, wvars, bvars, hvars>>
  \/ UProcess /\ UNCHANGED <<evars, svars, avars, cvars, kvars, mvars, xvars, dvars, wvars, bvars, hvars>>
  \/ UProcessFails /\ UNCHANGED <<evars, svars, avars, cvars, kvars, mvars, xvars, dvars, wvars, bvars, hvars>>
  \/ UBuildManifest /\ UNCHANGED <<evars, svars, avars, cvars, kvars, mvars, xvars, dvars, wvars, bvars, hvars>>
  \/ UDispatch /\ UNCHANGED <<evars, svars, avars, cvars, kvars, mvars, xvars, dvars, wvars, bvars, hvars>>
  \/ UShardConfirmed /\ UNCHANGED <<evars, svars, avars, cvars, kvars, mvars, xvars, dvars, wvars, bvars, hvars>>
  \/ UShardFailed /\ UNCHANGED <<evars, svars, avars, cvars, kvars, mvars, xvars, dvars, wvars, bvars, hvars>>
  \/ UDistributed /\ UNCHANGED <<evars, svars, avars, cvars, kvars, mvars, xvars, dvars, wvars, bvars, hvars>>
  \/ USave /\ UNCHANGED <<evars, svars, avars, cvars, kvars, mvars, xvars, dvars, wvars, bvars, hvars>>
  \/ USaveFails /\ UNCHANGED <<evars, svars, avars, cvars, kvars, mvars, xvars, dvars, wvars, bvars, hvars>>

InitUpload == EIdle /\ SIdle /\ AInit /\ CIdle /\ KIdle /\ MIdle /\ UInit /\ XIdle /\ DIdle /\ WIdle /\ BIdle /\ HInit

SpecUpload == InitUpload /\ [][UNext]_vars

KNext ==
  \/ KEncryptChunk /\ UNCHANGED <<evars, svars, avars, cvars, mvars, uvars, xvars, dvars, wvars, bvars, hvars>>
  \/ KAlterByte /\ UNCHANGED <<evars, svars, avars, cvars, mvars, uvars, xvars, dvars, wvars, bvars, hvars>>
  \/ KCutShort /\ UNCHANGED <<evars, svars, avars, cvars, mvars, uvars, xvars, dvars, wvars, bvars, hvars>>
  \/ KDecryptChunk /\ UNCHANGED <<evars, svars, avars, cvars, mvars, uvars, xvars, dvars, wvars, bvars, hvars>>

InitCrypto == EIdle /\ SIdle /\ AInit /\ CIdle /\ KInit /\ MIdle /\ UIdle /\ XIdle /\ DIdle /\ WIdle /\ BIdle /\ HInit

SpecCrypto == InitCrypto /\ [][KNext]_vars

DNext ==
  \/ DAssemble /\ UNCHANGED <<evars, svars, avars, cvars, kvars, mvars, uvars, xvars, wvars, bvars, hvars>>
  \/ DAssembleFirst /\ UNCHANGED <<evars, svars, avars, cvars, kvars, mvars, uvars, xvars, wvars, bvars, hvars>>

InitRedelivery == EIdle /\ SIdle /\ AInit /\ CIdle /\ KIdle /\ MIdle /\ UIdle /\ XIdle /\ DInit /\ WIdle /\ BIdle /\ HInit

SpecRedelivery == InitRedelivery /\ [][DNext]_vars

\* an upload of a file of one chunk whose caller may ask for cancellation
XNext ==
  \/ UNext
  \/ XCancel /\ UNCHANGED <<evars, svars, avars, cvars, kvars, mvars, uvars, dvars, wvars, bvars, hvars>>

InitCancel == InitUpload /\ Len(u_file) <= ChunkSize

SpecCancel == InitCancel /\ [][XNext]_vars

WNext ==
  \/ \E w \in Workers : WTake(w) /\ UNCHANGED <<evars, svars, avars, cvars, kvars, mvars, uvars, xvars, dvars, bvars, hvars>>
  \/ \E w \in Workers : WUploaded(w) /\ UNCHANGED <<evars, svars, avars, cvars, kvars, mvars, uvars, xvars, dvars, bvars, hvars>>
  \/ \E w \in Workers : WLock(w) /\ UNCHANGED <<evars, svars, avars, cvars, kvars, mvars, uvars, xvars, dvars, bvars, hvars>>
  \/ \E w \in Workers : WRead(w) /\ UNCHANGED <<evars, svars, avars, cvars, kvars, mvars, uvars, xvars, dvars, bvars, hvars>>
  \/ \E w \in Workers : WWrite(w) /\ UNCHANGED <<evars, svars, avars, cvars, kvars, mvars, uvars, xvars, dvars, bvars, hvars>>
  \/ \E w \in Workers : WUnlock(w) /\ UNCHANGED <<evars, svars, avars, cvars, kvars, mvars, uvars, xvars, dvars, bvars, hvars>>

InitPool == EIdle /\ SIdle /\ AInit /\ CIdle /\ KIdle /\ MIdle /\ UIdle /\ XIdle /\ DIdle /\ WInit /\ BIdle /\ HInit

SpecPool == InitPool /\ [][WNext]_vars

BNext ==
  \/ BOpenFails /\ UNCHANGED <<evars, svars, avars, cvars, kvars, mvars, uvars, xvars, dvars, wvars, hvars>>
  \/ BRead /\ UNCHANGED <<evars, svars, avars, cvars, kvars, mvars, uvars, xvars, dvars, wvars, hvars>>
  \/ BReadFails /\ UNCHANGED <<evars, svars, avars, cvars, kvars, mvars, uvars, xvars, dvars, wvars, hvars>>
  \/ BEOF /\ UNCHANGED <<evars, svars, avars, cvars, kvars, mvars, uvars, xvars, dvars, wvars, hvars>>
  \/ BStream /\ UNCHANGED <<evars, svars, avars, cvars, kvars, mvars, uvars, xvars, dvars, wvars, hvars>>

InitBatch == EIdle /\ SIdle /\ AInit /\ CIdle /\ KIdle /\ MIdle /\ UIdle /\ XIdle /\ DIdle /\ WIdle /\ BInit /\ HInit

SpecBatch == InitBatch /\ [][BNext]_vars

\* StreamChunkFile with a consumer that receives every result, and then
\* the hand-off of the collected chunks to AssembleChunks
HNext ==
  \/ SOpen /\ UNCHANGED <<evars, avars, cvars, kvars, mvars, uvars, xvars, dvars, wvars, bvars, hvars>>
  \/ SOpenFails /\ UNCHANGED <<evars, avars, cvars, kvars, mvars, uvars, xvars, dvars, wvars, bvars, hvars>>
  \/ SRead /\ UNCHANGED <<evars, avars, cvars, kvars, mvars, uvars, xvars, dvars, wvars, bvars, hvars>>
  \/ SReadFails /\ UNCHANGED <<evars, avars, cvars, kvars, mvars, uvars, xvars, dvars, wvars, bvars, hvars>>
  \/ SSend /\ UNCHANGED <<evars, avars, cvars, kvars, mvars, uvars, xvars, dvars, wvars, bvars, hvars>>
  \/ SSendErr /\ UNCHANGED <<evars, avars, cvars, kvars, mvars, uvars, xvars, dvars, wvars, bvars, hvars>>
  \/ SRecv /\ UNCHANGED <<evars, avars, cvars, kvars, mvars, uvars, xvars, dvars, wvars, bvars, hvars>>
  \/ SRecvClosed /\ UNCHANGED <<evars, avars, cvars, kvars, mvars, uvars, xvars, dvars, wvars, bvars, hvars>>
  \/ HStart /\ UNCHANGED <<evars, svars, avars, cvars, kvars, mvars, uvars, xvars, dvars, wvars, bvars>>
  \/ HStartFails /\ UNCHANGED <<evars, svars, avars, cvars, kvars, mvars, uvars, xvars, dvars, wvars, bvars>>
  \/ HSend /\ UNCHANGED <<evars, svars, avars, cvars, kvars, mvars, uvars, xvars, dvars, wvars, bvars>>
  \/ HRecv /\ UNCHANGED <<evars, svars, avars, cvars, kvars, mvars, uvars, xvars, dvars, wvars, bvars>>
  \/ HHandOver /\ UNCHANGED <<evars, svars, avars, cvars, kvars, mvars, uvars, xvars, dvars, wvars, bvars>>
  \/ HClose /\ UNCHANGED <<evars, svars, avars, cvars, kvars, mvars, uvars, xvars, dvars, wvars, bvars>>
  \/ HFinish /\ UNCHANGED <<evars, svars, avars, cvars, kvars, mvars, uvars, xvars, dvars, wvars, bvars>>

\* the producer goroutine of StreamChunkFile and its consumer
StreamSteps ==
  \/ SOpen /\ UNCHANGED <<evars, avars, cvars, kvars, mvars, uvars, xvars, dvars, wvars, bvars, hvars>>
  \/ SOpenFails /\ UNCHANGED <<evars, avars, cvars, kvars, mvars, uvars, xvars, dvars, wvars, bvars, hvars>>
  \/ SRead /\ UNCHANGED <<evars, avars, cvars, kvars, mvars, uvars, xvars, dvars, wvars, bvars, hvars>>
  \/ SReadFails /\ UNCHANGED <<evars, avars, cvars, kvars, mvars, uvars, xvars, dvars, wvars, bvars, hvars>>
  \/ SSend /\ UNCHANGED <<evars, avars, cvars, kvars, mvars, uvars, xvars, dvars, wvars, bvars, hvars>>
  \/ SSendErr /\ UNCHANGED <<evars, avars, cvars, kvars, mvars, uvars, xvars, dvars, wvars, bvars, hvars>>
  \/ SRecv /\ UNCHANGED <<evars, avars, cvars, kvars, mvars, uvars, xvars, dvars, wvars, bvars, hvars>>
  \/ SRecvClosed /\ UNCHANGED <<evars, avars, cvars, kvars, mvars, uvars, xvars, dvars, wvars, bvars, hvars>>

InitHandOff == EIdle /\ SInitLong /\ AInit /\ CIdle /\ KIdle /\ MIdle /\ UIdle /\ XIdle /\ DIdle /\ WIdle /\ BIdle /\ HInit

\* the goroutines are scheduled and the consumer of StreamChunkFile keeps
\* receiving; nothing obliges AssembleChunks or its sender to go on
SpecHandOff == InitHandOff /\ [][HNext]_vars /\ WF_vars(StreamSteps)




\* ------------------------------------------------------------------------
\* Claims about the erasure coding engine
\* ------------------------------------------------------------------------
EDone == e_out.err # NotRun

EIndices == {e_in[k].ShardIndex : k \in 1..Len(e_in)}

EAllHonest == \A k \in 1..Len(e_kinds) : e_kinds[k] = "honest"

EDistinct == \A j, k \in 1..Len(e_in) : j # k => e_in[j].ShardIndex # e_in[k].ShardIndex

\* the record at position k belongs to another chunk than the first record
EDiffers(k) == (e_kinds[k] = "foreign") # (e_kinds[1] = "foreign")

EHashError == "shard failed hash verification"
EMixedError == "shards belong to different chunks"
EIndexErrors == {"invalid shard index", "duplicate shard index"}

\* C1: ShardChunk followed by ReconstructChunk on at least 4 distinct,
\* unmodified shards in any order, with dataSize = len(b), returns b.
C1_RoundTrip ==
  (EDone /\ e_size = Len(e_buf) /\ Len(e_in) >= DataShards /\ EAllHonest /\ EDistinct)
    => e_out = [err |-> Nil, data |-> e_buf]

\* a 4-shard subset holding both parity shards, parity first, of a buffer
\* that needed padding, was reconstructed
C1_Witness ==
  /\ EDone /\ e_size = Len(e_buf) /\ EAllHonest /\ EDistinct
  /\ Len(e_buf) = MaxBufLen
  /\ Len(e_in) = DataShards
  /\ {4, 5} \subseteq EIndices
  /\ e_in[1].ShardIndex = 5
  /\ e_out.data = e_buf

\* C2: with at least 4 shards of one chunk and a positive size, one shard
\* whose data no longer matches its declared hash makes ReconstructChunk
\* return the verification error and no buffer, whatever accompanies it.
C2_TamperDetected ==
  (/\ EDone /\ e_size > 0 /\ Len(e_in) >= DataShards
   /\ \A k \in 1..Len(e_in) : e_kinds[k] # "foreign"
   /\ \E k \in 1..Len(e_in) : e_kinds[k] = "tampered")
    => e_out = [err |-> EHashError, data |-> <<>>]

\* the tampered shard came last, after three untouched ones
C2_Witness ==
  /\ EDone /\ e_size > 0 /\ Len(e_in) = DataShards
  /\ e_kinds = <<"honest", "honest", "honest", "tampered">>
  /\ EDistinct
  /\ e_out.err = EHashError

\* the error the claimed fixed order of precondition checks gives, all of
\* check (3) before any of check (4)
E7_OrderedClass ==
  IF Len(e_in) < DataShards THEN {"need at least 4 shards"}
  ELSE IF e_size <= 0 THEN {"invalid data size"}
  ELSE IF \E k \in 1..Len(e_in) : EDiffers(k) THEN {EMixedError}
  ELSE IF \E k \in 1..Len(e_in) : e_kinds[k] = "tampered" THEN {EHashError}
  ELSE IF ~EDistinct \/ \E k \in 1..Len(e_in) : e_kinds[k] = "badindex" THEN EIndexErrors
  ELSE {Nil}

\* C7 as claimed: the first failing precondition in the order (1) count,
\* (2) size, (3) mixed chunks, (4) hash verification, (5) index is reported.
C7_FixedOrder == EDone => e_out.err \in E7_OrderedClass

\* the first record, in input order, that is of another chunk or tampered
E7_FirstBad ==
  LET bad == {k \in 1..Len(e_in) : EDiffers(k) \/ e_kinds[k] = "tampered"}
  IN IF bad = {} THEN 0 ELSE CHOOSE k \in bad : \A j \in bad : k <= j

E7_InterleavedClass ==
  IF Len(e_in) < DataShards THEN {"need at least 4 shards"}
  ELSE IF e_size <= 0 THEN {"invalid data size"}
  ELSE IF E7_FirstBad # 0 THEN
         IF EDiffers(E7_FirstBad) THEN {EMixedError} ELSE {EHashError}
  ELSE IF ~EDistinct \/ \E k \in 1..Len(e_in) : e_kinds[k] = "badindex" THEN EIndexErrors
  ELSE {Nil}

\* C7 amended: checks (1) and (2) come first; checks (3) and (4) are made
\* record by record in input order, so the first record that is of another
\* chunk or fails verification decides the error; check (5) is reported
\* only when (1)-(4) pass.
C7_InterleavedOrder == EDone => e_out.err \in E7_InterleavedClass

\* a tampered record ahead of a foreign one: rejected for its hash
C7_Witness ==
  /\ EDone /\ e_size > 0 /\ Len(e_in) >= DataShards
  /\ \E j, k \in 1..Len(e_in) :
       j < k /\ e_kinds[j] = "tampered" /\ e_kinds[k] = "foreign"
  /\ e_kinds[1] = "honest"
  /\ e_out.err = EHashError

\* ------------------------------------------------------------------------
\* Claims about chunking and assembly
\* ------------------------------------------------------------------------
\* ceil(N / ChunkSize)
NumChunks(file) == (Len(file) + ChunkSize - 1) \div ChunkSize

\* the bytes of the k-th piece (k from 0) of file
Piece(file, k) == SubSeq(file, k * ChunkSize + 1, Min(Len(file), (k + 1) * ChunkSize))

\* every result sent so far, oldest first
Sent == s_recv \o s_chan

\* the range [0, totalChunks)
InRange == 0..(a_total - 1)

\* C6: for a source of N bytes read without error StreamChunkFile sends
\* exactly ceil(N / ChunkSize) results and then closes the stream.  The k-th
\* result carries no error, index k (0, 1, 2, ...), the k-th ChunkSize bytes
\* of the source (the last result the remaining 1..ChunkSize bytes), Size
\* equal to the length of its data and the hash of exactly that data; while
\* the producer runs the results sent are a prefix of that sequence, and a
\* source of 0 bytes sends nothing.
C6_StreamDelivers ==
  ~s_ioErr =>
    /\ Len(Sent) <= NumChunks(s_file)
    /\ \A k \in 1..Len(Sent) :
         /\ Sent[k].Err = Nil
         /\ Sent[k].Chunk.Index = k - 1
         /\ Sent[k].Chunk.Data = Piece(s_file, k - 1)
         /\ Sent[k].Chunk.Size = Len(Sent[k].Chunk.Data)
         /\ Sent[k].Chunk.Hash = Sha256Hex(Sent[k].Chunk.Data)
         /\ Sent[k].Chunk.Size >= 1 /\ Sent[k].Chunk.Size <= ChunkSize
         /\ (k < NumChunks(s_file) => Sent[k].Chunk.Size = ChunkSize)
    /\ (s_pc = "closed" => Len(Sent) = NumChunks(s_file))
    /\ (s_done => Len(s_recv) = NumChunks(s_file))

\* a source with a short last chunk was streamed to the end
C6_Witness ==
  /\ s_done /\ ~s_ioErr
  /\ Len(s_file) > ChunkSize /\ Len(s_file) % ChunkSize # 0
  /\ Len(s_recv) = NumChunks(s_file)
  /\ s_recv[Len(s_recv)].Chunk.Size < ChunkSize

\* C3: when exactly the chunks StreamChunkFile produced for a file of N >= 0
\* bytes are delivered to AssembleChunks, each once and in any order, with
\* totalChunks equal to their number, and neither reading the source nor
\* creating or writing the output fails, AssembleChunks returns nil and the
\* output file is byte-identical to the source (N = 0: no chunk, empty file).
C3_ChunkAssembleRoundTrip ==
  (/\ a_pc = "returned" /\ a_closed
   /\ ~s_ioErr /\ ~a_ioFail /\ ~a_crafted
   /\ a_total = Len(Collected)
   /\ a_ndeliv = a_total /\ a_deliv = InRange)
    => (a_err = Nil /\ a_file = s_file)

\* several chunks were delivered out of index order and assembled
C3_Witness ==
  /\ a_pc = "returned" /\ a_closed
  /\ ~s_ioErr /\ ~a_ioFail /\ ~a_crafted
  /\ a_total = Len(Collected) /\ a_total >= 2
  /\ a_ndeliv = a_total /\ a_deliv = InRange
  /\ ~a_inOrder
  /\ a_err = Nil

\* what C8 requires of a successful call; a failure to create the output
\* file counts as a failed write to it
A8_Complete ==
  /\ a_closed
  /\ a_deliv \subseteq InRange
  /\ ~a_ioFail
  /\ a_deliv = InRange

\* C8: AssembleChunks returns nil if and only if the stream was closed,
\* every delivered index was in [0, totalChunks), no write to the output
\* failed and the distinct delivered indices are exactly 0..totalChunks-1;
\* and when the stream is closed after in-range deliveries, written without
\* failure, that leave an index missing, it returns the incomplete-file
\* error while the output file still holds every byte that was written.
C8_SuccessIffComplete ==
  a_pc = "returned" =>
    /\ (a_err = Nil) <=> A8_Complete
    /\ (/\ a_closed /\ ~a_ioFail /\ a_deliv \subseteq InRange
        /\ Cardinality(a_deliv) < a_total)
         => /\ a_err = "incomplete file"
            /\ \A o \in a_written : o < Len(a_file)

\* the stream ended with index 1 of 3 missing and two chunks on disk
C8_Witness ==
  /\ a_pc = "returned" /\ a_closed /\ ~a_ioFail
  /\ a_total = 3 /\ a_deliv = {0, 2}
  /\ a_err = "incomplete file"
  /\ a_written # {} /\ Len(a_file) > 2 * ChunkSize

\* ------------------------------------------------------------------------
\* Claims about the encrypt-then-shard step
\* ------------------------------------------------------------------------
\* the shard list has TotalShards records, all of chunk index idx
C9_SixShardsOf(res, idx) ==
  /\ res.err = Nil
  /\ Len(res.shards) = TotalShards
  /\ \A i \in 1..TotalShards :
       res.shards[i].ChunkIndex = idx /\ res.shards[i].ShardIndex = i - 1

Structural(chunks, shards, farmers) ==
  /\ \A i \in 1..Len(shards) :
       /\ shards[i].FarmerIndex >= 0 /\ shards[i].FarmerIndex < Len(farmers)
       /\ shards[i].ChunkIndex >= 0 /\ shards[i].ChunkIndex < Len(chunks)
  /\ \A c \in 0..(Len(chunks) - 1) :
       LET of == {i \in 1..Len(shards) : shards[i].ChunkIndex = c} IN
       /\ Cardinality(of) = TotalShards
       /\ {shards[i].ShardIndex : i \in of} = 0..(TotalShards - 1)

UploadSteps ==
  <<"Validating", "Hashing", "KeyGeneration", "Processing", "ManifestBuilding",
    "Distributing", "Persisting">>

UploadErrors ==
  <<"invalid config", "failed to hash file", "failed to generate key",
    "failed to process file", "no error", "failed to distribute shards",
    "failed to save manifest">>

\* the position of the first step that did not succeed, 0 when all did
U4_FirstFailed ==
  LET bad == {i \in 1..Len(UploadSteps) : UploadSteps[i] \notin u_okSteps}
  IN IF bad = {} THEN 0 ELSE CHOOSE i \in bad : \A j \in bad : i <= j

\* C4: Upload returns a manifest only with a nil error, after every step
\* has succeeded and the manifest was saved; a failing return carries no
\* manifest and the one error of the first step that failed, no later
\* step having run; and the output path is written only after the
\* distribution has succeeded.
C4_ManifestOnlyOnSuccess ==
  /\ (u_ret # NoReturn) <=> (u_pc \in {"Done", "Failed"})
  /\ (u_ret # NoReturn /\ u_ret.manifest # NoManifest) =>
       /\ u_ret.err = Nil
       /\ u_ret.manifest = u_m /\ u_m # NoManifest
       /\ u_okSteps = {UploadSteps[i] : i \in 1..Len(UploadSteps)}
       /\ u_disk = "saved"
  /\ (u_ret # NoReturn /\ u_ret.manifest = NoManifest) =>
       /\ U4_FirstFailed # 0
       /\ u_ret.err = UploadErrors[U4_FirstFailed]
       /\ u_okSteps = {UploadSteps[i] : i \in 1..(U4_FirstFailed - 1)}
  /\ u_disk # "none" => "Distributing" \in u_okSteps

\* Upload returned the manifest of a file of two chunks or more
C4_Witness ==
  /\ u_pc = "Done"
  /\ u_ret.err = Nil /\ u_ret.manifest = u_m
  /\ Len(u_chunks) >= 2
  /\ u_disk = "saved"

\* the distribution has returned
U5_Distributed ==
  /\ "ManifestBuilding" \in u_okSteps
  /\ u_pc # "Distributing"

\* C5: the distribution succeeds if and only if every chunk has at least
\* DataShards of its TotalShards shards confirmed by farmers.  When a chunk
\* has fewer, Upload fails with the distribution error, returns no manifest
\* and writes none; otherwise every failed shard upload is recorded in
\* UploadStats.Errors and Upload goes on to save the manifest.
C5_DistributionNeedsFourPerChunk ==
  U5_Distributed =>
    /\ \A c \in 1..Len(u_chunks) : u_farmerOk[c] + u_farmerBad[c] = TotalShards
    /\ ("Distributing" \in u_okSteps)
         <=> (\A c \in 1..Len(u_chunks) : u_farmerOk[c] >= DataShards)
    /\ "Distributing" \notin u_okSteps =>
         /\ u_pc = "Failed"
         /\ u_ret = [manifest |-> NoManifest, err |-> "failed to distribute shards"]
         /\ u_disk = "none"
    /\ "Distributing" \in u_okSteps =>
         /\ \A c \in 1..Len(u_chunks) :
              CopiesIn(c - 1, u_stats.Errors) = u_farmerBad[c]
         /\ \/ u_pc = "Persisting"
            \/ u_pc = "Done" /\ u_ret.err = Nil
            \/ u_pc = "Failed" /\ u_ret.err = "failed to save manifest"

\* Upload finished although shard uploads of two chunks had failed
C5_Witness ==
  /\ u_pc = "Done"
  /\ Len(u_chunks) >= 2
  /\ u_farmerBad[1] = ParityShards /\ u_farmerBad[2] = 1
  /\ BagCardinality(u_stats.Errors) = ParityShards + 1

\* ------------------------------------------------------------------------
\* Claims about the confidentiality layer
\* ------------------------------------------------------------------------
\* the buffer EncryptChunk returned reached DecryptChunk as it was
KIntact == k_dec.err # NotRun /\ k_how = "intact"

\* C11: for every 32-byte key and every plaintext, the empty one included,
\* EncryptChunk succeeds and DecryptChunk of its result under the same key
\* succeeds and returns exactly the plaintext, whichever nonce was drawn
C11_EncryptDecryptRoundTrip ==
  /\ (k_enc.err # NotRun /\ Len(k_key) = KeySize) =>
       /\ k_enc.err = Nil
       /\ Len(k_enc.data) = NonceSize + Len(k_plain) + TagSize
  /\ (KIntact /\ k_dkey = k_key) => k_dec = [err |-> Nil, data |-> k_plain]

\* the longest plaintext came back from a sealed buffer
C11_Witness ==
  /\ KIntact /\ k_dkey = k_key
  /\ Len(k_plain) = MaxPlainLen /\ k_dec.data = k_plain /\ k_dec.err = Nil

\* C12: DecryptChunk returns an error and no plaintext whenever the buffer
\* was sealed under another key, one byte of nonce, ciphertext or tag was
\* changed, the buffer is shorter than a nonce, or the key is not 32 bytes
C12_DecryptFailsClosed ==
  (k_dec.err # NotRun /\ (\/ k_how \in {"altered", "short"}
                          \/ k_dkey # k_key
                          \/ Len(k_dkey) # KeySize)) =>
    /\ k_dec.err \notin {Nil, NotRun}
    /\ k_dec.data = <<>>

\* a sealed non-empty plaintext with one byte changed was refused under
\* the sealing key
C12_Witness ==
  /\ k_how = "altered" /\ k_dkey = k_key /\ Len(k_plain) > 0
  /\ k_dec.err = "decryption failed (wrong key or tampered data)"
  /\ k_dec.data = <<>>

\* the place of a step in the order of Upload, "Done" coming last
U13_Rank(pc) ==
  IF pc = "Done" THEN Len(UploadSteps) + 1
  ELSE CHOOSE i \in 1..Len(UploadSteps) : UploadSteps[i] = pc

\* C13: one run of Upload passes through validate, hash, generate key,
\* process, build manifest, distribute, save, done in this order: a step
\* starts only when exactly the steps before it have succeeded, so none
\* runs twice; a failing step ends the run with its own error; and once
\* the run has ended nothing of it changes any more
C13_FixedStepOrder ==
  [][/\ u_pc' # u_pc =>
          \/ /\ u_pc' = "Failed"
             /\ u_pc \notin {"Done", "Failed"}
             /\ u_ret' = [manifest |-> NoManifest, err |-> UploadErrors[U13_Rank(u_pc)]]
             /\ u_okSteps' = u_okSteps
          \/ /\ u_pc' # "Failed"
             /\ u_pc \notin {"Done", "Failed"}
             /\ U13_Rank(u_pc') = U13_Rank(u_pc) + 1
             /\ u_okSteps' = {UploadSteps[i] : i \in 1..U13_Rank(u_pc)}
             /\ u_okSteps = {UploadSteps[i] : i \in 1..(U13_Rank(u_pc) - 1)}
     /\ u_pc \in {"Done", "Failed"} => UNCHANGED uvars
    ]_vars

\* the run ended at the distribution, the five steps before it having
\* succeeded and the manifest never written
C13_Witness ==
  /\ u_pc = "Failed"
  /\ u_ret.err = "failed to distribute shards"
  /\ u_okSteps = {UploadSteps[i] : i \in 1..5}
  /\ u_next = Len(u_allShards) /\ u_next > 0
  /\ u_disk = "none"

\* the configuration has an empty file path, no farmer endpoint or a
\* parallelism that is not positive
U14_InvalidConfig ==
  \/ u_config.FilePath = ""
  \/ Len(u_config.FarmerEndpoints) = 0
  \/ u_config.Parallelism <= 0

C15_CancelStopsNewUploads ==
  [][x_cancel =>
       /\ u_next' = u_next
       /\ u_inflight' \subseteq u_inflight
       /\ \A c \in 1..Len(u_farmerOk) : u_farmerOk'[c] >= u_farmerOk[c]
    ]_vars

\* ------------------------------------------------------------------------
\* Claims about the stream of StreamChunkFile
\* ------------------------------------------------------------------------
\* the positions in the results sent so far that carry an error
S16_Errors == {k \in 1..Len(Sent) : Sent[k].Err # Nil}

\* seq with one element appended is what next holds, or next is seq
S16_GrowsByOne(seq, next) ==
  \/ next = seq
  \/ Len(next) = Len(seq) + 1 /\ SubSeq(next, 1, Len(seq)) = seq

\* C16: when opening or a read of the source fails, StreamChunkFile sends
\* exactly one error result, it is the last result before the stream is
\* closed, every result before it is a full chunk with the next index, the
\* bytes of the source at that place and their hash, and a result once
\* received is never changed or taken back
C16_ErrorIsTerminal ==
  /\ [](/\ Cardinality(S16_Errors) <= 1
        /\ S16_Errors # {} => (s_ioErr /\ S16_Errors = {Len(Sent)} /\ s_pc = "closed")
        /\ (s_ioErr /\ s_pc = "closed") => S16_Errors = {Len(Sent)}
        /\ (s_ioErr /\ s_done) => (s_recv # <<>> /\ s_recv[Len(s_recv)].Err # Nil)
        /\ s_ioErr =>
             \A k \in 1..Len(Sent) : Sent[k].Err = Nil =>
               /\ Sent[k].Chunk.Index = k - 1
               /\ Sent[k].Chunk.Size = ChunkSize
               /\ Sent[k].Chunk.Data = Piece(s_file, k - 1)
               /\ Sent[k].Chunk.Hash = Sha256Hex(Sent[k].Chunk.Data))
  /\ [][S16_GrowsByOne(s_recv, s_recv') /\ S16_GrowsByOne(Sent, Sent')]_vars

\* a read failed after three chunks and the consumer received all four
\* results
C16_Witness ==
  /\ s_ioErr /\ s_done
  /\ Len(s_recv) = 4
  /\ s_recv[4].Err = "failed to read chunk"
  /\ \A k \in 1..3 : s_recv[k].Err = Nil

\* C17: in every interleaving of producer and consumer the channel holds
\* at most StreamBuffer results, the producer completes no send while it
\* is full, and the consumer receives the results in the order they were
\* produced, unchanged: the oldest buffered one each time
C17_BoundedLookahead ==
  /\ [](/\ Len(s_chan) <= StreamBuffer
        /\ \A k \in 1..Len(Sent) : Sent[k].Err = Nil =>
             /\ Sent[k].Chunk.Index = k - 1
             /\ Sent[k].Chunk.Data = Piece(s_file, k - 1)
        /\ (s_done /\ ~s_ioErr) => Len(s_recv) = NumChunks(s_file))
  /\ [][/\ Len(s_chan) = StreamBuffer =>
             (s_index' = s_index /\ (s_chan' = s_chan \/ s_chan' = Tail(s_chan)))
        /\ s_recv' # s_recv =>
             (s_chan # <<>> /\ s_recv' = Append(s_recv, Head(s_chan))
              /\ s_chan' = Tail(s_chan))
       ]_vars

\* the producer stands at its send with the channel full while the
\* consumer has already received a result
C17_Witness ==
  /\ Len(s_chan) = StreamBuffer
  /\ s_pc = "send"
  /\ s_recv # <<>>
  /\ s_pend.Chunk.Index = Len(s_recv) + StreamBuffer

\* ------------------------------------------------------------------------
\* Claims about the checks of AssembleChunks on each delivered chunk
\* ------------------------------------------------------------------------
\* the indices delivered that lie outside [0, totalChunks)
A18_OutOfRange == {i \in a_deliv : i < 0 \/ i >= a_total}

\* C18: AssembleChunks returns the out-of-bounds error on the first
\* delivered chunk whose index is negative or not below totalChunks: the
\* step that delivers it writes nothing, leaves the presence flags and the
\* unique count as they were and ends the call, and nothing is processed
\* after the call has returned
C18_OutOfBoundsFailsAtOnce ==
  /\ [](/\ Cardinality(A18_OutOfRange) <= 1
        /\ A18_OutOfRange # {} => (a_pc = "returned" /\ a_err = "chunk index out of bounds")
        /\ a_err = "chunk index out of bounds" => A18_OutOfRange # {})
  /\ [][/\ (\E i \in a_deliv' \ a_deliv : i < 0 \/ i >= a_total) =>
             /\ a_pc = "loop" /\ a_pc' = "returned"
             /\ a_err' = "chunk index out of bounds"
             /\ a_file' = a_file /\ a_written' = a_written
             /\ a_received' = a_received /\ a_unique' = a_unique
        /\ a_pc = "returned" => UNCHANGED avars
       ]_vars

\* after two chunks were written, a chunk with index totalChunks ended the
\* call
C18_Witness ==
  /\ a_pc = "returned" /\ a_err = "chunk index out of bounds"
  /\ a_total = 2 /\ a_unique = 2 /\ 2 \in a_deliv
  /\ ~a_closed

RECURSIVE A19_WriteAll(_, _, _)
\* the chunks of seq written to file one after the other, each at its
\* index times ChunkSize, up to the first index outside [0, total)
A19_WriteAll(file, seq, total) ==
  IF seq = <<>> THEN file
  ELSE IF Head(seq).Index < 0 \/ Head(seq).Index >= total THEN file
  ELSE A19_WriteAll(WriteAt(file, Head(seq).Data, Head(seq).Index * ChunkSize),
                    Tail(seq), total)

\* the indices AssembleChunks handles before it meets one out of range
A19_Handled(seq, total) ==
  {seq[k].Index : k \in {j \in 1..Len(seq) :
                           \A h \in 1..j : seq[h].Index >= 0 /\ seq[h].Index < total}}

E20_MixedVerified ==
  /\ EDone /\ Len(e_in) >= DataShards
  /\ \A k \in 1..Len(e_in) : VerifyShard(e_in[k].Data, e_in[k].Hash)
  /\ \E k \in 1..Len(e_in) : e_in[k].ChunkIndex # e_in[1].ChunkIndex

\* C20 as claimed: such a call returns the mixed-chunks error and no data,
\* whatever the position of the foreign shard
C20_MixedAlwaysRejected ==
  E20_MixedVerified => e_out = [err |-> EMixedError, data |-> <<>>]

\* C20 amended: such a call with a positive dataSize returns the
\* mixed-chunks error and no data, whatever the position of the foreign
\* shard; with a dataSize of 0 or less it returns the invalid-size error
\* and no data, the size being checked before any shard is looked at
C20_MixedRejectedForPositiveSize ==
  E20_MixedVerified =>
    /\ e_size > 0 => e_out = [err |-> EMixedError, data |-> <<>>]
    /\ e_size <= 0 => e_out = [err |-> "invalid data size", data |-> <<>>]

\* the shard of the other chunk came last, after three shards of the
\* chunk, all with matching hashes
C20_Witness ==
  /\ E20_MixedVerified /\ e_size > 0
  /\ e_kinds = <<"honest", "honest", "honest", "foreign">>
  /\ EDistinct
  /\ e_out.err = EMixedError

\* ------------------------------------------------------------------------
\* Claims about ReconstructChunk on too few shards
\* ------------------------------------------------------------------------
\* C21: ReconstructChunk called with fewer than DataShards records, of any
\* content, returns the insufficient-shards error and no data, whatever
\* the size argument
C21_TooFewShards ==
  (EDone /\ Len(e_in) < DataShards) =>
    e_out = [err |-> "need at least 4 shards", data |-> <<>>]

\* three records, one of them tampered, with a size that is not positive
C21_Witness ==
  /\ EDone /\ Len(e_in) = DataShards - 1
  /\ e_size <= 0
  /\ \E k \in 1..Len(e_in) : e_kinds[k] = "tampered"
  /\ e_out.err = "need at least 4 shards"

\* ------------------------------------------------------------------------
\* Claims about the shard records ShardChunk returns
\* ------------------------------------------------------------------------
\* byte j of the first DataShards shards laid end to end
E22_JoinedByte(j) ==
  LET size == Len(e_shards.shards[1].Data) IN
  e_shards.shards[((j - 1) \div size) + 1].Data[((j - 1) % size) + 1]

\* C22: a successful ShardChunk returns TotalShards records, record i
\* carrying shardIndex i and the chunk's index, all of one length, each
\* with Size the length of its data and Hash the hash of its data, and
\* the first DataShards shards joined and cut to the ciphertext's length
\* are the ciphertext; when the ciphertext's length differs from
\* chunk.Size the size-mismatch error and no shards are returned
C22_ShardRecords ==
  /\ e_shards.err = Nil =>
       /\ Len(e_shards.shards) = TotalShards
       /\ \A i \in 1..TotalShards :
            LET sh == e_shards.shards[i] IN
            /\ sh.ShardIndex = i - 1
            /\ sh.ChunkIndex = e_chunk.Index
            /\ Len(sh.Data) = Len(e_shards.shards[1].Data)
            /\ sh.Size = Len(sh.Data)
            /\ sh.Hash = Sha256Hex(sh.Data)
       /\ Len(e_shards.shards[1].Data) * DataShards >= Len(e_buf)
       /\ \A j \in 1..Len(e_buf) : E22_JoinedByte(j) = e_buf[j]
  /\ (e_shards.err # NotRun /\ Len(e_buf) # e_chunk.Size) =>
       e_shards = [err |-> "data size mismatch", shards |-> <<>>]

\* a ciphertext that does not divide into DataShards equal parts, sharded
C22_Witness ==
  /\ e_shards.err = Nil
  /\ Len(e_buf) % DataShards # 0
  /\ Len(e_buf) > 1
  /\ Len(e_shards.shards) = TotalShards

\* ------------------------------------------------------------------------
\* Claims about Save and Load
\* ------------------------------------------------------------------------
\* Load has returned for a path that Save wrote
M23_Loaded == m_loaded.err # NotRun /\ m_disk # NoFile

\* the two times are the same instant (Time.Equal)
M23_SameInstant(a, b) == a.unix = b.unix /\ a.nsec = b.nsec

\* every field of the manifest but the file name is as it was built
M23_OtherFieldsKept ==
  LET m == m_manifest
      l == m_loaded.m
  IN /\ m_loaded.err = Nil
     /\ l.Version = m.Version /\ l.BlobID = m.BlobID
     /\ l.FileSize = m.FileSize /\ l.OriginalFileHash = m.OriginalFileHash
     /\ l.ChunkSize = m.ChunkSize /\ l.ChunkCount = m.ChunkCount
     /\ l.DataShards = m.DataShards /\ l.ParityShards = m.ParityShards
     /\ l.TotalShards = m.TotalShards
     /\ l.Chunks = m.Chunks /\ l.Shards = m.Shards /\ l.Farmers = m.Farmers
     /\ l.EncryptionKey = m.EncryptionKey
     /\ l.PublisherAddress = m.PublisherAddress
     /\ M23_SameInstant(l.CreatedAt, m.CreatedAt)

\* C23: for every manifest m built by New, Load of what Save wrote succeeds
\* and returns a manifest with every field as in m: identifiers, file name,
\* size and hash, parameters, the three tables in order, the encoded key,
\* the publisher address and the creation time
C23_SaveLoadRoundTrip ==
  M23_Loaded => (M23_OtherFieldsKept /\ m_loaded.m.FileName = m_manifest.FileName)

\* ------------------------------------------------------------------------
\* Claims about the farmer queries
\* ------------------------------------------------------------------------
\* GetFarmersForChunk has answered
M24_Asked == m_query.op = "GetFarmersForChunk"

\* the shards of the chunk asked for, in table order
M24_Shards == GetShardsForChunk(m_manifest, m_query.chunk)

\* the farmer indices of those shards that name a farmer of the table
M24_Named ==
  {M24_Shards[k].FarmerIndex : k \in 1..Len(M24_Shards)}
    \cap (0..(Len(m_manifest.Farmers) - 1))

\* the position among the chunk's shards of the first that names farmer f
M24_First(f) ==
  CHOOSE k \in 1..Len(M24_Shards) :
    /\ M24_Shards[k].FarmerIndex = f
    /\ \A j \in 1..(k - 1) : M24_Shards[j].FarmerIndex # f

\* C24: GetFarmersForChunk returns the farmers of the chunk's shards, each
\* once, in the order of the first shard that names it, also when several
\* shards name one farmer index; it returns none for a chunk without
\* shards; it leaves the manifest as it was
C24_FarmersOnceInOrder ==
  /\ [](M24_Asked =>
          \E idx \in [1..Len(m_query.out) -> M24_Named] :
            /\ \A f \in M24_Named : \E k \in 1..Len(m_query.out) : idx[k] = f
            /\ \A j, k \in 1..Len(m_query.out) :
                 j < k => M24_First(idx[j]) < M24_First(idx[k])
            /\ \A k \in 1..Len(m_query.out) :
                 m_query.out[k] = m_manifest.Farmers[idx[k] + 1])
  /\ []((M24_Asked /\ Len(M24_Shards) = 0) => m_query.out = <<>>)
  /\ [][MGetFarmersForChunk => m_manifest' = m_manifest]_vars

\* a chunk whose shards name one farmer several times, between them another
C24_Witness ==
  /\ M24_Asked
  /\ Len(m_query.out) = 2
  /\ Len(M24_Shards) > 2
  /\ \E j, k \in 1..Len(M24_Shards) :
       j + 1 < k /\ M24_Shards[j].FarmerIndex = M24_Shards[k].FarmerIndex
                 /\ M24_Shards[j + 1].FarmerIndex # M24_Shards[j].FarmerIndex

\* a GetFarmerForShard query has answered
M25_Asked == m_query.op = "GetFarmerForShard"

\* the shard asked about names a position of the farmer table
M25_ValidIndex ==
  m_query.shard.FarmerIndex >= 0 /\ m_query.shard.FarmerIndex < Len(m_manifest.Farmers)

\* C25: in every manifest the farmer at position i of the farmer table has
\* Index i, so GetFarmerForShard of a shard with a valid farmerIndex
\* returns a farmer whose Index is that farmerIndex, and it returns no
\* farmer exactly when farmerIndex is negative or not below the number of
\* farmers
C25_FarmerIndexIsPosition ==
  /\ m_manifest # NoManifest =>
       \A i \in 1..Len(m_manifest.Farmers) : m_manifest.Farmers[i].Index = i - 1
  /\ M25_Asked =>
       /\ M25_ValidIndex =>
            /\ Len(m_query.out) = 1
            /\ m_query.out[1].Index = m_query.shard.FarmerIndex
       /\ (m_query.out = <<>>) <=> ~M25_ValidIndex

\* ------------------------------------------------------------------------
\* Claims about the byte ranges AssembleChunks writes
\* ------------------------------------------------------------------------
\* the positions of d_seq whose chunk AssembleChunks writes: no chunk up
\* to it is out of range and none before it has its index
D26_Writes ==
  {k \in 1..Len(d_seq) :
     /\ \A j \in 1..k : d_seq[j].Index >= 0 /\ d_seq[j].Index < d_total
     /\ \A j \in 1..(k - 1) : d_seq[j].Index # d_seq[k].Index}

\* the byte offsets chunk c is written to
D26_Range(c) == (c.Index * ChunkSize)..(c.Index * ChunkSize + Len(c.Data) - 1)

\* C26: the byte ranges AssembleChunks writes for two chunks of distinct
\* indices do not overlap, so in whatever order the chunks arrive the
\* bytes written for one index are not overwritten for another: each
\* written chunk's data stands in the output at its offset
C26_WritesNeverOverlap ==
  d_out.err # NotRun =>
    /\ \A j, k \in D26_Writes :
         d_seq[j].Index # d_seq[k].Index =>
           D26_Range(d_seq[j]) \cap D26_Range(d_seq[k]) = {}
    /\ \A k \in D26_Writes :
         \A i \in 1..Len(d_seq[k].Data) :
           d_out.file[d_seq[k].Index * ChunkSize + i] = d_seq[k].Data[i]

\* C27: whenever AssembleChunks returns success the output has no holes:
\* every offset from 0 to the final length of the file was written by a
\* delivered chunk
C27_SuccessHasNoHoles ==
  d_out.err = Nil => \A off \in 0..(Len(d_out.file) - 1) : off \in d_out.written

\* ------------------------------------------------------------------------
\* Claims about the statistics the upload workers share
\* ------------------------------------------------------------------------
\* the pool has drained: every shard was handed out and every worker is free
W28_Drained == w_next > MaxPoolShards /\ \A w \in Workers : w_pc[w] = "idle"

\* the shards whose upload ended as o
W28_Ended(o) == {j \in 1..MaxPoolShards : w_outcome[j] = o}

RECURSIVE W28_Bytes(_)
\* the sizes of the confirmed shards among 1..n, summed
W28_Bytes(n) ==
  IF n = 0 THEN 0
  ELSE W28_Bytes(n - 1) + (IF w_outcome[n] = "confirmed" THEN poolShardSize(n) ELSE 0)

\* C28: the workers update the UploadStats counters and error list under
\* synchronization, so no update is lost in any interleaving: when the
\* distribution ends ShardsUploaded is the number of confirmed shard
\* uploads, BytesUploaded the sum of their sizes, and Errors holds exactly
\* one entry for every failed shard upload
C28_NoUpdateLost ==
  W28_Drained =>
    /\ w_stats.ShardsUploaded = Cardinality(W28_Ended("confirmed"))
    /\ w_stats.BytesUploaded = W28_Bytes(MaxPoolShards)
    /\ Len(w_stats.Errors) = Cardinality(W28_Ended("failed"))
    /\ \A j \in W28_Ended("failed") :
         Cardinality({k \in 1..Len(w_stats.Errors) : w_stats.Errors[k] = j}) = 1

\* the pool has drained after confirmed and failed uploads, a later shard
\* having recorded its failure before an earlier one
C28_Witness ==
  /\ W28_Drained
  /\ Cardinality(W28_Ended("confirmed")) >= 1
  /\ Len(w_stats.Errors) >= 2
  /\ w_stats.Errors[1] > w_stats.Errors[2]

\* ------------------------------------------------------------------------
\* Claims about ChunkFile and StreamChunkFile
\* ------------------------------------------------------------------------
\* ChunkFile has returned its chunks and StreamChunkFile was drained
B29_BothRan == b_ret.err = Nil /\ b_stream.err = Nil

\* C29: for every file ChunkFile returns the chunk sequence StreamChunkFile
\* delivers: as many chunks, indexed 0.. in order, every chunk but
\* possibly the last of ChunkSize bytes, with the same data and hashes,
\* however the reads of the file are split
C29_BatchEqualsStream ==
  B29_BothRan =>
    /\ b_ret.chunks = b_stream.chunks
    /\ \A k \in 1..Len(b_ret.chunks) :
         /\ b_ret.chunks[k].Index = k - 1
         /\ k < Len(b_ret.chunks) => Len(b_ret.chunks[k].Data) = ChunkSize

\* ------------------------------------------------------------------------
\* Claims about the termination of the stream hand-offs
\* ------------------------------------------------------------------------
\* AssembleChunks has returned with an error while its sender still has a
\* chunk to send and the channel is unbuffered or full
H30_Blocked ==
  /\ h_pc = "returned" /\ h_err # Nil
  /\ ~h_closed
  /\ h_next < Len(Collected)
  /\ Len(h_chan) = h_cap

\* C30: the producer of StreamChunkFile closes its stream after finitely
\* many results when every result is received; AssembleChunks, once it has
\* returned, receives nothing further, so a sender that still has a chunk
\* to send on an unbuffered or full channel stays blocked forever and
\* never finishes
C30_HandOffTermination ==
  /\ <>(s_pc = "closed")
  /\ [][h_pc = "returned" => h_nrecv' = h_nrecv]_vars
  /\ [](H30_Blocked => [](H30_Blocked /\ ~h_closed))

\* the sender is blocked on a full buffered channel after an index out of
\* bounds
C30_Witness ==
  /\ H30_Blocked
  /\ h_cap > 0
  /\ h_err = "chunk index out of bounds"

====
